---- MODULE Spec2Model ----
(***************************************************************************)
(* A model of autophonecrash.py: AutophoneCrashProcessor, the collector of *)
(* crash evidence (Java exceptions in logcat, ANR traces, tombstones,      *)
(* minidumps) from an Android device.                                      *)
(*                                                                         *)
(* Every operation on the device (a method of the adb object) is one step: *)
(* it either has its effect on the device's files, or it fails with        *)
(* ADBError and leaves them as they are.  The operations issued are        *)
(* recorded, in order, in oplog.  The host side (the upload directory, the *)
(* staging directories made by tempfile.mkdtemp) is state of the model.    *)
(*                                                                         *)
(* The last sections model two methods of perftest.py, PerfTest: the test  *)
(* of the standard errors of a dataset and the submission of a result.     *)
(*                                                                         *)
(* Python values: None and '' of an optional value are the empty sequence; *)
(* a text is a sequence of tokens (strings); a list is a sequence.         *)
(***************************************************************************)
EXTENDS Integers, Sequences, FiniteSets, TLC

(***************************************************************************)
(* Bounds of the model.                                                    *)
(***************************************************************************)
\* most *.dmp files the device's minidump directory holds when it is pulled
MaxDumpFiles == 1
\* the same, where the cap on the dump files is looked at
CapDumpFiles == 10
\* most *.dmp files the pending-crash-report directory holds when it is pulled
MaxPendingFiles == 1
\* most check_for_tombstones passes in a row over one upload directory
MaxTombstonePasses == 3
\* most lines of the logcat get_java_exception scans
MaxLogcatLines == 4
\* most lines of the stdout of minidump_stackwalk
MaxOutLines == 3

\* the most datapoints of a dataset given to is_stderr_below_threshold
MaxDatapoints == 2

(***************************************************************************)
(* Program constants.                                                      *)
(***************************************************************************)
TRACES == "/data/anr/traces.txt"
TOMBSTONES == "/data/tombstones"
max_dumps == 10
\* publish_results: max_attempts = 10, wait_time = 10
max_attempts == 10
wait_time == 10
\* len(out) > 3
MinStdoutLen == 3

VARIABLES
    pc,                 \* the statement the running call is at; "idle", "done", "raised"
    stack,              \* the callers' frames: [ret, root]
    entry,              \* the method called from outside
    root,               \* the root parameter of the running method
    exc,                \* the exception that left the outermost call, or ""
    retval,             \* the value the last returning method returned
    remote_profile_dir, \* self.remote_profile_dir: <<>> (None), <<"">>, <<path>>
    dev_traces,         \* device: the ANR trace file, [exists, text, mode]
    dev_tombs,          \* device: the tombstone directory, [exists, files]
    dev_dumps,          \* device: the minidump directory of the profile, [exists, files]
    dev_pending,        \* device: the pending-crash-report directory, [exists, files]
    symbols_path,       \* argument: "" or a path
    stackwalk_binary,   \* argument: <<>> (None) or <<path>>
    clean,              \* argument
    java_exception,     \* get_errors: <<>> (None) or <<report>>
    errors,             \* get_errors: the list being built
    crashes,            \* get_crashes: the list being built
    t,                  \* check_for_anr_traces: the text read from the device
    temp_upload_dir,    \* get_crashes: <<>> before mkdtemp, then <<name>>
    dump_files,         \* get_crashes: the (path, extra) pairs to process
    staging,            \* host: the staging directories that exist -> their *.dmp files
    up_files,           \* host: text files of the upload directory, [path, text]
    up_tombs,           \* host: tombstones of the upload directory, <<name, n, content>>
    up_dumps,           \* host: dump and extra files copied to the upload directory
    oplog,              \* the device operations issued by the running call, in order
    log,                \* the LOGGER messages of the running call
    passes,             \* calls started so far
    adb_logcat,         \* get_java_exception: logcat, the lines read from the device
    scan_i,             \* get_java_exception: the line the for loop is at, from 1
    stackwalk_exists,   \* _process_dump_file: os.path.exists(stackwalk_binary)
    stackwalk_run,      \* _process_dump_file: <<>>, or <<[out, err, retcode]>> of Popen
    stack_info,         \* the for loop of get_crashes: info, <<>> or <<StackInfo>>
    measurements,       \* is_stderr_below_threshold: argument, a list of names
    dataset,            \* is_stderr_below_threshold: argument, a list of datapoints
    threshold,          \* is_stderr_below_threshold: argument, a percentage
    cachekey_i,         \* is_stderr_below_threshold: the turn of the outer for loop
    measurement_i,      \* is_stderr_below_threshold: the turn of the inner for loop
    attempt,            \* publish_results: the loop variable, 0 before the loop
    status,             \* PerfTest: self.status
    message,            \* PerfTest: self.message, <<>> (None) or <<text>>
    author,             \* publish_results: <<>> (None) or <<pushuser>>
    content_type,       \* publish_results: "" before the encoding
    urlopens,           \* the calls of urllib2.urlopen so far
    sleeps,             \* the calls of time.sleep so far, their wait times
    mails               \* the calls of mailer.send so far, their attempt numbers

vars == <<pc, stack, entry, root, exc, retval, remote_profile_dir, dev_traces,
          dev_tombs, dev_dumps, dev_pending, symbols_path,
          stackwalk_binary, clean, java_exception, errors, crashes, t,
          temp_upload_dir, dump_files, staging, up_files, up_tombs, up_dumps,
          oplog, log, passes, adb_logcat, scan_i, stackwalk_exists,
          stackwalk_run, stack_info, measurements, dataset, threshold,
          cachekey_i, measurement_i, attempt, status, message, author,
          content_type, urlopens, sleeps, mails>>

\* what a call of get_java_exception or _process_dump_file that is followed
\* statement by statement keeps; the other methods leave it alone
study == <<adb_logcat, scan_i, stackwalk_exists, stackwalk_run, stack_info>>

\* the PerfTest object and the calls of its methods; the methods of the
\* crash processor leave it alone
perftest == <<measurements, dataset, threshold, cachekey_i, measurement_i,
              attempt, status, message, author, content_type, urlopens,
              sleeps, mails>>

argv == <<symbols_path, stackwalk_binary, clean>>
locals == <<java_exception, errors, crashes, t, temp_upload_dir, dump_files>>
host == <<staging, up_files, up_tombs, up_dumps>>
device == <<dev_traces, dev_tombs, dev_dumps, dev_pending>>

None == <<>>

(***************************************************************************)
(* Control: calls, returns, exceptions, the log of device operations.      *)
(***************************************************************************)
\* an operation on the device: the method, its path, its other arguments,
\* its root argument and whether it succeeded (ok) or failed with ADBError
DevOp(op, path, args, r, ok) ==
    [op |-> op, path |-> path, args |-> args, root |-> r, ok |-> ok]

Issue(op, path, args, r, ok) == oplog' = Append(oplog, DevOp(op, path, args, r, ok))

Flag(b) == IF b THEN "True" ELSE "False"

\* the running method returns v to its caller
Return(v) ==
    /\ retval' = v
    /\ IF stack = <<>>
       THEN /\ pc' = "done"
            /\ UNCHANGED <<stack, root>>
       ELSE /\ pc' = Head(stack).ret
            /\ root' = Head(stack).root
            /\ stack' = Tail(stack)

\* the running method calls a method that starts at statement p with root = r
\* and continues at statement ret when it returns
Invoke(p, r, ret) ==
    /\ stack' = <<[ret |-> ret, root |-> root]>> \o stack
    /\ root' = r
    /\ pc' = p

\* an exception no frame handles leaves the outermost call
Raise(e) ==
    /\ pc' = "raised"
    /\ exc' = e
    /\ stack' = <<>>
    /\ UNCHANGED <<root, retval>>

Goto(p) == pc' = p /\ UNCHANGED <<stack, root>>

Logged(msg) == log' = log \cup {msg}

(***************************************************************************)
(* remote_dump_dir, remote_pending_crashreports_dir.                       *)
(***************************************************************************)
ProfileDirs == {None, <<"">>, <<"/data/local/tmp/profile">>}

\* "if not self.remote_profile_dir: return None": None and '' are both unset
remote_dump_dir ==
    IF remote_profile_dir = None \/ remote_profile_dir = <<"">>
    THEN None
    ELSE <<remote_profile_dir[1] \o "/minidumps">>

remote_pending_crashreports_dir ==
    "/data/data/org.mozilla.fennec/files/mozilla/Crash\\ Reports/pending/"

(***************************************************************************)
(* get_java_exception: the scan of the logcat lines.                       *)
(***************************************************************************)
Markers == {"REPORTING UNCAUGHT EXCEPTION", "FATAL EXCEPTION"}

HasMarker(line) == \E i \in 1..Len(line) : line[i] \in Markers

LastIndexOf(line, tok) ==
    LET S == {i \in 1..Len(line) : line[i] = tok}
    IN  IF S = {} THEN 0 ELSE CHOOSE i \in S : \A j \in S : j <= i

\* the group of a pattern whose first ".*" takes as little as it can
logre_group1_lazy(line) ==
    LET S == {i \in 1..Len(line) : line[i] = "): "}
        k == IF S = {} THEN 0 ELSE CHOOSE i \in S : \A j \in S : i <= j
        rest == SubSeq(line, k + 1, Len(line))
    IN  IF k = 0 THEN <<>>
        ELSE IF rest # <<>> /\ rest[1] = "\t" THEN Tail(rest) ELSE rest

\* logre = r".*\): \t?(.*)": group 1 of the match, '' when there is none
logre_group1(line) ==
    LET k == LastIndexOf(line, "): ")
        rest == SubSeq(line, k + 1, Len(line))
    IN  IF k = 0 THEN <<>>
        ELSE IF rest # <<>> /\ rest[1] = "\t" THEN Tail(rest) ELSE rest

FirstMarker(logcat) ==
    LET S == {i \in 1..Len(logcat) : HasMarker(logcat[i])}
    IN  IF S = {} THEN 0 ELSE CHOOSE i \in S : \A j \in S : i <= j

JavaException(exception_type, exception_location) ==
    [reason |-> "java-exception",
     signature |-> exception_type \o <<" ">> \o exception_location]

logcat_truncated(logcat) ==
    LET i == FirstMarker(logcat) IN i # 0 /\ Len(logcat) < i + 2

get_java_exception(logcat) ==
    LET i == FirstMarker(logcat)
    IN  IF i = 0 \/ Len(logcat) < i + 2 THEN None
        ELSE LET exception_type == logre_group1(logcat[i + 1])
                 exception_location == logre_group1(logcat[i + 2])
             IN  IF exception_type # <<>>
                 THEN <<JavaException(exception_type, exception_location)>>
                 ELSE None

\* logcat lines: date, time, tag and pid, the "): " token, the message
LinePrefix == "01-30 20:15:41.937 E/GeckoAppShell( 1703"
LineMarker == <<LinePrefix, "): ", ">>> ", "REPORTING UNCAUGHT EXCEPTION", " FROM THREAD 9">>
LineFatal == <<LinePrefix, "): ", "FATAL EXCEPTION", ": main">>
LineType == <<LinePrefix, "): ", "java.lang.NullPointerException">>
LineFrame == <<LinePrefix, "): ", "\t", "at org.mozilla.gecko.GeckoApp$21.run(GeckoApp.java:1833)">>
LinePlain == <<"--------- beginning of main">>

Logcats ==
    { <<>>,
      <<LinePlain, LineType>>,
      <<LinePlain, LineMarker, LineType, LineFrame, LineFrame>>,
      <<LineFatal, LineType, LineFrame>>,
      <<LineMarker, LineType>>,
      <<LineMarker, LinePlain, LineFrame>> }

\* a report made of the two lines whatever is left of the first one
exception_at_always(logcat, i) ==
    <<JavaException(logre_group1(logcat[i + 1]), logre_group1(logcat[i + 2]))>>

\* "if exception_type: exception = {...}" for the two lines after the marker
\* line i; exception stays None otherwise
exception_at(logcat, i) ==
    LET exception_type == logre_group1(logcat[i + 1])
        exception_location == logre_group1(logcat[i + 2])
    IN  IF exception_type # <<>>
        THEN <<JavaException(exception_type, exception_location)>>
        ELSE None

\* more logcat lines: nothing after the "): " token; two "): " tokens
LineEmpty == <<LinePrefix, "): ">>
LineNested == <<LinePrefix, "): ", "java.lang.RuntimeException: parse(x", "): ", "failed">>

LogLines == {LinePlain, LineMarker, LineFatal, LineType, LineFrame, LineEmpty, LineNested}

\* the sequences of at most n elements of S
RECURSIVE SeqsUpTo(_, _)
SeqsUpTo(S, n) ==
    IF n = 0 THEN {<<>>}
    ELSE LET shorter == SeqsUpTo(S, n - 1)
         IN  shorter \cup {Append(q, x) : q \in shorter, x \in S}

\* what self.adb.get_logcat() can return
LogcatInputs == SeqsUpTo(LogLines, MaxLogcatLines)

(***************************************************************************)
(* Host files.                                                             *)
(***************************************************************************)
\* open(name, mode): IOError when a file opened for reading does not exist
open_fails(path, mode, path_exists) == mode = "r" /\ ~path_exists

\* f.write(t): IOError when the file was not opened for writing
write_fails(mode) == mode \notin {"w", "wb", "a", "ab", "r+", "w+"}

\* upload_dir after "f = open(path, mode); f.write(text); f.close()" succeeded
written(files, path, text) ==
    {f \in files : f.path # path} \cup {[path |-> path, text |-> text]}

\* open(os.path.join(self.upload_dir, 'traces.txt', 'wb')): the path joined from
\* upload_dir, 'traces.txt' and 'wb'; no mode argument, so the default mode
traces_copy == [path |-> "traces.txt/wb", mode |-> "r"]

\* the files a pull of the tombstone directory can bring: a name is its
\* characters after "tombstone_"
DeviceTombstoneFiles == {<<"tombstone_", "0", "1">>, <<"tombstone_", "1", "0", "0">>}

\* glob "tombstone_??"
matches_tombstone_glob(name) == name[1] = "tombstone_" /\ Len(name) = Len(<<"tombstone_", "?", "?">>)

\* the upload directory after a pull of device files <<name, content>>:
\* a pulled file replaces the file of its name
pulled(tombs, files) ==
    {e \in tombs : ~(e[2] = 0 /\ \E f \in files : f[1] = e[1])}
        \cup {<<f[1], 0, f[2]>> : f \in files}

\* os.path.exists("%s.%d.txt" % (f, i))
newname_exists(tombs, f, i) == \E e \in tombs : e[1] = f /\ e[2] = i

\* a rename that always takes the first name
newname_index_first(tombs, f) == 1

\* "for i in xrange(1, sys.maxint): if not os.path.exists(newname)": the first i
newname_index(tombs, f) ==
    CHOOSE i \in 1..(Cardinality(tombs) + 1) :
        /\ ~newname_exists(tombs, f, i)
        /\ \A j \in 1..(i - 1) : newname_exists(tombs, f, j)

\* os.rename(f, newname) for every f of glob(upload_dir/tombstone_??)
RECURSIVE rename_all(_, _)
rename_all(tombs, todo) ==
    IF todo = {} THEN tombs
    ELSE LET e == CHOOSE x \in todo : TRUE
             i == newname_index(tombs, e[1])
         IN  rename_all({x \in tombs \ {e} : ~(x[1] = e[1] /\ x[2] = i)}
                            \cup {<<e[1], i, e[3]>>},
                        todo \ {e})

renamed(tombs) ==
    rename_all(tombs, {e \in tombs : e[2] = 0 /\ matches_tombstone_glob(e[1])})

(***************************************************************************)
(* The device's files.                                                     *)
(***************************************************************************)
\* the text of an ANR trace file, and of the file "echo >" leaves
AnrText == <<"----- pid 1703 at 2016-01-30 20:15:41 -----">>
EmptyText == <<"\n">>

NoFile == [exists |-> FALSE, text |-> <<>>, mode |-> ""]
NoDir == [exists |-> FALSE, files |-> {}]
Dir(files) == [exists |-> TRUE, files |-> files]

TracesStates == {NoFile, [exists |-> TRUE, text |-> AnrText, mode |-> "600"]}

\* a tombstone file on the device is <<name, content>>
TombstoneStates ==
    {NoDir} \cup {Dir({<<f, 0>> : f \in S}) : S \in SUBSET DeviceTombstoneFiles}

\* a dump file is named by the device directory it is in and a number;
\* the odd ones have an .extra file beside them
DumpNames(dir, n) == {<<dir, k>> : k \in 1..n}

HasExtra(name) == name[2] % 2 = 1

DumpStates(dir, most) == {NoDir} \cup {Dir(DumpNames(dir, n)) : n \in 0..most}

(***************************************************************************)
(* _process_dump_file: the run of minidump_stackwalk and the signature.    *)
(* A run of the binary is [out, err, retcode]; out is its lines, a line    *)
(* its tokens.                                                             *)
(***************************************************************************)
RECURSIVE SumLen(_)
SumLen(tokens) == IF tokens = <<>> THEN 0 ELSE Len(Head(tokens)) + SumLen(Tail(tokens))

\* len(out): the characters of every line and its newline
RECURSIVE OutLen(_)
OutLen(lines) ==
    IF lines = <<>> THEN 0 ELSE SumLen(Head(lines)) + 1 + OutLen(Tail(lines))

\* "(crashed)" in line
IsCrashedLine(line) == \E i \in 1..Len(line) : line[i] = "(crashed)"

CanCapture(s) == s # <<>> /\ s[1] # "["

RECURSIVE UpToBracket(_)
UpToBracket(s) ==
    IF s = <<>> \/ s[1] = "[" THEN <<>> ELSE <<s[1]>> \o UpToBracket(Tail(s))

RECURSIVE LStrip(_)
LStrip(s) == IF s # <<>> /\ s[1] = " " THEN LStrip(Tail(s)) ELSE s

RECURSIVE RStrip(_)
RStrip(s) ==
    IF s # <<>> /\ s[Len(s)] = " " THEN RStrip(SubSeq(s, 1, Len(s) - 1)) ELSE s

\* the group of a pattern without "(?:.*!)?": the module stays in it
frame0_group_with_module(line) ==
    IF line = <<>> \/ line[1] # " 0  " \/ ~CanCapture(Tail(line)) THEN None
    ELSE LET start == Tail(line)
             body == IF start[1] = "void " /\ CanCapture(Tail(start))
                     THEN Tail(start) ELSE start
         IN  <<UpToBracket(body)>>

\* re.search(r"^ 0  (?:.*!)?(?:void )?([^\[]+)", line): None, or <<group 1>>
frame0_group(line) ==
    IF line = <<>> \/ line[1] # " 0  " THEN None
    ELSE LET rest == Tail(line)
             bangs == {k \in 1..Len(rest) :
                          rest[k] = "!" /\ CanCapture(SubSeq(rest, k + 1, Len(rest)))}
             last == CHOOSE k \in bangs : \A j \in bangs : j <= k
             start == IF bangs = {} THEN rest ELSE SubSeq(rest, last + 1, Len(rest))
         IN  IF ~CanCapture(start) THEN None
             ELSE LET body == IF start[1] = "void " /\ CanCapture(Tail(start))
                              THEN Tail(start) ELSE start
                  IN  <<UpToBracket(body)>>

\* a scan that goes on to the last line with "(crashed)"
LastCrashed(lines) ==
    LET S == {i \in 1..Len(lines) : IsCrashedLine(lines[i])}
    IN  IF S = {} THEN 0 ELSE CHOOSE i \in S : \A j \in S : j <= i

\* the line at which "for i, line in enumerate(lines)" breaks, 0 if none
FirstCrashed(lines) ==
    LET S == {i \in 1..Len(lines) : IsCrashedLine(lines[i])}
    IN  IF S = {} THEN 0 ELSE CHOOSE i \in S : \A j \in S : i <= j

StackInfo(path, signature, out, err, retcode, errs, extra) ==
    [minidump_path |-> path, signature |-> signature, stackwalk_stdout |-> out,
     stackwalk_stderr |-> err, stackwalk_retcode |-> retcode,
     stackwalk_errors |-> errs, extra |-> extra]

\* a run that does not look for the binary first
stackwalk_runs_unchecked(sp, sb, binary_exists) == sp # "" /\ sb # None

\* symbols_path and stackwalk_binary and os.path.exists(stackwalk_binary)
stackwalk_runs(sp, sb, binary_exists) == sp # "" /\ sb # None /\ binary_exists

\* a run whose stderr is kept whatever it printed
include_stderr_always(out) == TRUE

\* include_stderr after the run: False in the branch "if len(out) > 3", True
\* in its else
include_stderr(out) == ~(OutLen(out) > MinStdoutLen)

\* lines[i+1] of the first "(crashed)" line i is beyond the last line
process_dump_file_raises(sp, sb, binary_exists, run) ==
    /\ stackwalk_runs(sp, sb, binary_exists)
    /\ ~include_stderr(run.out)
    /\ FirstCrashed(run.out) # 0
    /\ FirstCrashed(run.out) = Len(run.out)

process_dump_file(path, extra, sp, sb, binary_exists, run) ==
    IF stackwalk_runs(sp, sb, binary_exists)
    THEN IF ~include_stderr(run.out)
         THEN LET i == FirstCrashed(run.out)
                  match == IF i = 0 THEN None ELSE frame0_group(run.out[i + 1])
                  signature == IF match = None THEN None
                               ELSE <<<<"@ ">> \o RStrip(LStrip(match[1]))>>
              IN  StackInfo(path, signature, <<run.out>>, None, <<run.retcode>>,
                            <<>>, extra)
         ELSE StackInfo(path, None, <<run.out>>, <<run.err>>, <<run.retcode>>,
                        <<>>, extra)
    ELSE StackInfo(path, None, None, None, None,
                   (IF sp = "" THEN <<"No symbols path given, can't process dump.">>
                    ELSE <<>>)
                   \o (IF sb = None
                       THEN <<"MINIDUMP_STACKWALK not set, can't process dump.">>
                       ELSE IF ~binary_exists
                            THEN <<"MINIDUMP_STACKWALK binary not found">>
                            ELSE <<>>),
                   extra)

\* a report that has the extracted signature or none
report_signature_as_extracted(info) ==
    IF info.signature # None THEN info.signature[1] ELSE <<>>

\* signature = info.signature if info.signature else "unknown top frame"
report_signature(info) ==
    IF info.signature # None /\ info.signature[1] # <<>>
    THEN info.signature[1] ELSE <<"unknown top frame">>

\* a list that puts the stdout before the stderr
stackwalk_output_stdout_first(info) ==
    <<[part |-> "Crash dump filename", val |-> <<info.minidump_path>>]>>
    \o (IF info.stackwalk_stdout # None
        THEN <<[part |-> "stdout", val |-> info.stackwalk_stdout]>>
        ELSE IF info.stackwalk_stderr # None /\ info.stackwalk_stderr[1] # <<>>
             THEN <<[part |-> "stderr from minidump_stackwalk:", val |-> <<>>],
                    [part |-> "stderr", val |-> info.stackwalk_stderr]>>
             ELSE <<>>)
    \o (IF info.stackwalk_retcode # None /\ info.stackwalk_retcode[1] # 0
        THEN <<[part |-> "minidump_stackwalk exited with return code",
                val |-> info.stackwalk_retcode]>>
        ELSE <<>>)

\* the list stackwalk_output that is joined with "\n": the header, the
\* stderr under its title or else the stdout, the return code if not 0
stackwalk_output(info) ==
    <<[part |-> "Crash dump filename", val |-> <<info.minidump_path>>]>>
    \o (IF info.stackwalk_stderr # None /\ info.stackwalk_stderr[1] # <<>>
        THEN <<[part |-> "stderr from minidump_stackwalk:", val |-> <<>>],
               [part |-> "stderr", val |-> info.stackwalk_stderr]>>
        ELSE IF info.stackwalk_stdout # None
             THEN <<[part |-> "stdout", val |-> info.stackwalk_stdout]>>
             ELSE <<>>)
    \o (IF info.stackwalk_retcode # None /\ info.stackwalk_retcode[1] # 0
        THEN <<[part |-> "minidump_stackwalk exited with return code",
                val |-> info.stackwalk_retcode]>>
        ELSE <<>>)

\* '\n'.join(strings): the strings with a newline between two of them
RECURSIVE JoinLines(_)
JoinLines(strings) ==
    IF Len(strings) <= 1 THEN strings
    ELSE <<Head(strings), "\n">> \o JoinLines(Tail(strings))

\* the report get_crashes appends for one dump
ProcessCrash(info) ==
    [reason |-> "PROCESS_CRASH",
     signature |-> report_signature(info),
     stackwalk_output |-> stackwalk_output(info),
     stackwalk_errors |-> JoinLines(info.stackwalk_errors)]

ThreadLine == <<"Thread 3 ", "(crashed)">>
FrameLine == <<" 0  ", "libfoo.so", "!", "Bar::Baz()", " ", "[", "f.cpp : 1 + 0x0]">>
FrameLineNoModule == <<" 0  ", "libc.so + 0xa888">>
NextFrameLine == <<" 1  ", "libfoo.so", "!", "Qux()", " ", "[", "g.cpp : 2 + 0x0]">>
OsLine == <<"Operating system: Android">>

\* more lines of a stdout: a frame 0 with "void", one that starts with its
\* bracket, a line of two characters
FrameLineVoid == <<" 0  ", "libxul.so", "!", "void ", "js::gc::MarkInternal()", " ", "[",
                   "Marking.cpp : 92 + 0x28]">>
FrameLineBracket == <<" 0  ", "[", "f.cpp : 1 + 0x0]">>
ShortLine == <<"ok">>

OutLines == {OsLine, ThreadLine, FrameLine, FrameLineNoModule, NextFrameLine,
             FrameLineVoid, FrameLineBracket, ShortLine}

\* what a run of minidump_stackwalk can give: (out, err) and p.returncode
StackwalkInputs ==
    [out : SeqsUpTo(OutLines, MaxOutLines),
     err : {<<>>, <<"minidump.cc: ERROR">>},
     retcode : {0, 1}]

StackwalkRuns ==
    { [out |-> <<OsLine, ThreadLine, FrameLine, NextFrameLine>>,
       err |-> <<"minidump.cc: INFO">>, retcode |-> 0],
      [out |-> <<ThreadLine, FrameLineNoModule>>, err |-> <<>>, retcode |-> 0],
      [out |-> <<OsLine, ThreadLine, NextFrameLine>>, err |-> <<>>, retcode |-> 1],
      [out |-> <<>>, err |-> <<"minidump.cc: ERROR">>, retcode |-> 1],
      [out |-> <<OsLine, ThreadLine>>, err |-> <<>>, retcode |-> 0] }

(***************************************************************************)
(* get_crashes: the dump files of the staging directory.                   *)
(***************************************************************************)
\* self.upload_dir, the directory given to the constructor
upload_dir == "upload_dir"

\* the names tempfile.mkdtemp() can give a new directory
TmpNames == {"/tmp/tmpA", "/tmp/tmpB"}

StagedFiles(d) == IF \E s \in staging : s.dir = d
                  THEN (CHOOSE s \in staging : s.dir = d).files ELSE {}

AddStaged(d, files) ==
    {s \in staging : s.dir # d} \cup {[dir |-> d, files |-> StagedFiles(d) \cup files]}

\* glob.glob(temp_upload_dir/*.dmp): the files in the order the host lists
\* them, forward or backward by name
ListingOrders == {"forward", "backward"}

Before(a, b) == \/ a[1] = "minidumps" /\ b[1] = "pending"
                \/ a[1] = b[1] /\ a[2] < b[2]

Rank(files, f) == Cardinality({g \in files : Before(g, f)}) + 1

glob_dmp(files, order) ==
    [i \in 1..Cardinality(files) |->
        CHOOSE f \in files :
            Rank(files, f) = IF order = "forward" THEN i
                             ELSE Cardinality(files) + 1 - i]

\* (path, os.path.splitext(path)[0] + '.extra') for path in glob
pairs(d, names) ==
    [i \in 1..Len(names) |->
        <<[dir |-> d, name |-> names[i], ext |-> "dmp"],
          [dir |-> d, name |-> names[i], ext |-> "extra"]>>]

\* if len(dump_files) > max_dumps: del dump_files[max_dumps:]
capped(files) ==
    IF Len(files) > max_dumps THEN SubSeq(files, 1, max_dumps) ELSE files

\* a warning from max_dumps files on
truncation_logged_from_max(files) == Len(files) >= max_dumps

\* the LOGGER.warning of the branch "if len(dump_files) > max_dumps"
truncation_logged(files) == Len(files) > max_dumps

\* the files shutil.copy brings to upload_dir for the pairs: the .dmp, the
\* .extra if it exists; a copy to an unwritable name fails and is logged
CopySources(prs) ==
    {prs[i][1] : i \in 1..Len(prs)}
        \cup {prs[i][2] : i \in {j \in 1..Len(prs) : HasExtra(prs[j][2].name)}}

UploadName(f) == [name |-> f.name, ext |-> f.ext]

\* copies that stop for good at the first one that fails
copied_until_failure(prs, unwritable) ==
    IF \E f \in CopySources(prs) : UploadName(f) \in unwritable
    THEN {}
    ELSE {UploadName(f) : f \in CopySources(prs)}

copied(prs, unwritable) ==
    {UploadName(f) : f \in {g \in CopySources(prs) : UploadName(g) \notin unwritable}}

copy_failed(prs, unwritable) ==
    \E f \in CopySources(prs) : UploadName(f) \in unwritable

UnwritableSets ==
    { {}, {[name |-> <<"minidumps", 1>>, ext |-> "dmp"]},
      {[name |-> <<"minidumps", 1>>, ext |-> "extra"]} }

\* the reports of the for loop over dump_files, one per pair, in order
reports(prs, sp, sb, binary_exists, run) ==
    [i \in 1..Len(prs) |->
        ProcessCrash(process_dump_file(prs[i][1], prs[i][2], sp, sb, binary_exists, run))]

(***************************************************************************)
(* The state after construction.                                           *)
(***************************************************************************)
InitProcessor ==
    /\ pc = "idle"
    /\ stack = <<>>
    /\ entry = ""
    /\ root = TRUE
    /\ exc = ""
    /\ retval = None
    /\ symbols_path = ""
    /\ stackwalk_binary = None
    /\ clean = TRUE
    /\ java_exception = None
    /\ errors = <<>>
    /\ crashes = <<>>
    /\ t = <<>>
    /\ temp_upload_dir = None
    /\ dump_files = <<>>
    /\ staging = {}
    /\ up_files = {}
    /\ up_tombs = {}
    /\ up_dumps = {}
    /\ oplog = <<>>
    /\ log = {}
    /\ passes = 0
    /\ adb_logcat = <<>>
    /\ scan_i = 1
    /\ stackwalk_exists = FALSE
    /\ stackwalk_run = None
    /\ stack_info = None
    \* no method of the PerfTest object has been called
    /\ measurements = <<>>
    /\ dataset = <<>>
    /\ threshold = 0
    /\ cachekey_i = 1
    /\ measurement_i = 1
    /\ attempt = 0
    /\ status = "PASS"
    /\ message = None
    /\ author = None
    /\ content_type = ""
    /\ urlopens = 0
    /\ sleeps = <<>>
    /\ mails = <<>>

\* any profile, any device
Init ==
    /\ InitProcessor
    /\ remote_profile_dir \in ProfileDirs
    /\ dev_traces \in TracesStates
    /\ dev_tombs \in TombstoneStates
    /\ dev_dumps \in IF remote_profile_dir \in {None, <<"">>} THEN {NoDir}
                     ELSE DumpStates("minidumps", MaxDumpFiles)
    /\ dev_pending \in DumpStates("pending", MaxPendingFiles)

\* a device with a profile and many dump files, without traces and tombstones
InitCap ==
    /\ InitProcessor
    /\ remote_profile_dir = <<"/data/local/tmp/profile">>
    /\ dev_traces = NoFile
    /\ dev_tombs = NoDir
    /\ dev_dumps \in DumpStates("minidumps", CapDumpFiles) \ {NoDir}
    /\ dev_pending \in DumpStates("pending", MaxPendingFiles)

\* a device without anything but tombstones
InitTombstones ==
    /\ InitProcessor
    /\ remote_profile_dir = None
    /\ dev_traces = NoFile
    /\ dev_tombs \in TombstoneStates
    /\ dev_dumps = NoDir
    /\ dev_pending = NoDir

\* a device without anything, a processor without a profile
InitBare ==
    /\ InitProcessor
    /\ remote_profile_dir = None
    /\ dev_traces = NoFile
    /\ dev_tombs = NoDir
    /\ dev_dumps = NoDir
    /\ dev_pending = NoDir

\* a processor with a profile, after the dump files were pulled off the device
InitDump ==
    /\ InitProcessor
    /\ remote_profile_dir = <<"/data/local/tmp/profile">>
    /\ dev_traces = NoFile
    /\ dev_tombs = NoDir
    /\ dev_dumps = Dir({})
    /\ dev_pending = NoDir

\* a call from outside starts
Enter(method, r, first) ==
    /\ pc = "idle"
    /\ entry' = method
    /\ root' = r
    /\ pc' = first
    /\ passes' = passes + 1
    /\ UNCHANGED <<stack, exc, retval, remote_profile_dir, study, perftest, device, locals, host,
                   oplog, log>>

SymbolsPaths == {"", "/builds/symbols"}
StackwalkBinaries == {None, <<"/usr/bin/minidump_stackwalk">>}

Call_get_errors ==
    /\ passes = 0
    /\ \E sp \in SymbolsPaths, sb \in StackwalkBinaries, cl \in BOOLEAN :
          /\ symbols_path' = sp
          /\ stackwalk_binary' = sb
          /\ clean' = cl
    /\ Enter("get_errors", TRUE, "ge_java")

Call_get_crashes ==
    /\ passes = 0
    /\ \E sp \in SymbolsPaths, sb \in StackwalkBinaries, cl \in BOOLEAN :
          /\ symbols_path' = sp
          /\ stackwalk_binary' = sb
          /\ clean' = cl
    /\ \E r \in BOOLEAN : Enter("get_crashes", r, "gc_anr")

Call_check_for_anr_traces ==
    /\ passes = 0
    /\ \E r \in BOOLEAN : Enter("check_for_anr_traces", r, "anr_exists")
    /\ UNCHANGED argv

Call_check_for_tombstones ==
    /\ passes < MaxTombstonePasses
    /\ entry \in {"", "check_for_tombstones"}
    /\ \E r \in BOOLEAN : Enter("check_for_tombstones", r, "tomb_exists")
    /\ UNCHANGED argv

Call_clear ==
    /\ passes = 0
    /\ Enter("clear", TRUE, "clear_anr")
    /\ UNCHANGED argv

\* the caller has the result (or the exception) of a check_for_tombstones
\* pass and goes on; the upload directory stays as the pass left it
Finish ==
    /\ pc \in {"done", "raised"}
    /\ entry = "check_for_tombstones"
    /\ pc' = "idle"
    /\ exc' = ""
    /\ retval' = None
    /\ oplog' = <<>>
    /\ log' = {}
    /\ UNCHANGED <<stack, entry, root, remote_profile_dir, study, perftest, device, argv, locals,
                   host, passes>>

\* between two passes a process of the device crashes: the device writes
\* tombstone files, whose content is new
Tombstone ==
    /\ pc = "idle"
    /\ 0 < passes /\ passes < MaxTombstonePasses
    /\ \E S \in SUBSET DeviceTombstoneFiles \ {{}} :
          dev_tombs' = Dir({f \in dev_tombs.files : f[1] \notin S}
                           \cup {<<n, passes>> : n \in S})
    /\ UNCHANGED <<pc, stack, entry, root, exc, retval, remote_profile_dir, study, perftest,
                   dev_traces, dev_dumps, dev_pending, argv, locals, host, oplog,
                   log, passes>>

(***************************************************************************)
(* delete_anr_traces: the three operations are in one try; an ADBError is  *)
(* logged and the method returns.                                          *)
(***************************************************************************)
delete_anr_traces_failed ==
    /\ Logged("Could not initialize ANR traces")
    /\ Return(None)
    /\ UNCHANGED dev_traces

dat_rm ==
    /\ pc = "dat_rm"
    /\ \E ok \in BOOLEAN :
          /\ Issue("rm", TRACES, "", Flag(root), ok)
          /\ IF ok
             THEN /\ dev_traces' = NoFile
                  /\ Goto("dat_echo")
                  /\ UNCHANGED <<log, retval>>
             ELSE delete_anr_traces_failed
    /\ UNCHANGED <<entry, exc, remote_profile_dir, study, perftest, dev_tombs, dev_dumps, dev_pending,
                   argv, locals, host, passes>>

dat_echo ==
    /\ pc = "dat_echo"
    /\ \E ok \in BOOLEAN :
          /\ Issue("shell_output", TRACES, "echo >", Flag(root), ok)
          /\ IF ok
             THEN /\ dev_traces' = [exists |-> TRUE, text |-> EmptyText, mode |-> "600"]
                  /\ Goto("dat_chmod")
                  /\ UNCHANGED <<log, retval>>
             ELSE delete_anr_traces_failed
    /\ UNCHANGED <<entry, exc, remote_profile_dir, study, perftest, dev_tombs, dev_dumps, dev_pending,
                   argv, locals, host, passes>>

dat_chmod ==
    /\ pc = "dat_chmod"
    /\ \E ok \in BOOLEAN :
          /\ Issue("chmod", TRACES, "mask=666", Flag(root), ok)
          /\ IF ok
             THEN /\ dev_traces' = [dev_traces EXCEPT !.mode = "666"]
                  /\ Return(None)
                  /\ UNCHANGED log
             ELSE delete_anr_traces_failed
    /\ UNCHANGED <<entry, exc, remote_profile_dir, study, perftest, dev_tombs, dev_dumps, dev_pending,
                   argv, locals, host, passes>>

(***************************************************************************)
(* check_for_anr_traces.                                                   *)
(***************************************************************************)
\* if self.adb.exists(TRACES, root=root), outside the try
anr_exists ==
    /\ pc = "anr_exists"
    /\ \E ok \in BOOLEAN :
          /\ Issue("exists", TRACES, "", Flag(root), ok)
          /\ IF ~ok THEN Raise("ADBError") /\ UNCHANGED log
             ELSE IF dev_traces.exists
                  THEN Goto("anr_cat") /\ UNCHANGED <<exc, retval, log>>
                  ELSE Logged("traces not found") /\ Return(None) /\ UNCHANGED exc
    /\ UNCHANGED <<entry, remote_profile_dir, study, perftest, device, argv, locals, host, passes>>

\* a handler that went on to clear the trace file after the failure
anr_failed_and_cleared ==
    /\ Logged("Error pulling traces")
    /\ pc' = "dat_rm"
    /\ root' = TRUE
    /\ UNCHANGED <<stack, retval>>

\* except ADBError / except IOError of check_for_anr_traces: the failure is
\* logged and the method returns
anr_failed ==
    /\ Logged("Error pulling traces")
    /\ Return(None)

\* t = self.adb.shell_output("cat %s" % TRACES, root=root), in the try
anr_cat ==
    /\ pc = "anr_cat"
    /\ \E ok \in BOOLEAN :
          /\ Issue("shell_output", TRACES, "cat", Flag(root), ok)
          /\ IF ok
             THEN /\ t' = dev_traces.text
                  /\ Goto("anr_copy")
                  /\ Logged("Contents of traces")
                  /\ UNCHANGED retval
             ELSE /\ anr_failed
                  /\ UNCHANGED t
    /\ UNCHANGED <<entry, exc, remote_profile_dir, study, perftest, device, argv, java_exception,
                   errors, crashes, temp_upload_dir, dump_files, host, passes>>

\* f = open(...); f.write(t); f.close(); self.delete_anr_traces(), in the try:
\* an IOError is logged and the method returns; delete_anr_traces() is the
\* last statement and is called with its default root=True
anr_copy ==
    /\ pc = "anr_copy"
    /\ \E path_exists \in BOOLEAN :
          IF \/ open_fails(traces_copy.path, traces_copy.mode, path_exists)
             \/ write_fails(traces_copy.mode)
          THEN /\ anr_failed
               /\ UNCHANGED up_files
          ELSE /\ up_files' = written(up_files, traces_copy.path, t)
               /\ pc' = "dat_rm"
               /\ root' = TRUE
               /\ UNCHANGED <<stack, retval, log>>
    /\ UNCHANGED <<entry, exc, remote_profile_dir, study, perftest, device, argv, locals, staging,
                   up_tombs, up_dumps, oplog, passes>>

(***************************************************************************)
(* delete_tombstones, check_for_tombstones.  Nothing here catches an       *)
(* ADBError.                                                               *)
(***************************************************************************)
dt_rm ==
    /\ pc = "dt_rm"
    /\ \E ok \in BOOLEAN :
          /\ Issue("rm", TOMBSTONES, "force recursive", Flag(root), ok)
          /\ IF ok
             THEN dev_tombs' = NoDir /\ Return(None) /\ UNCHANGED exc
             ELSE Raise("ADBError") /\ UNCHANGED dev_tombs
    /\ UNCHANGED <<entry, remote_profile_dir, study, perftest, dev_traces, dev_dumps, dev_pending,
                   argv, locals, host, log, passes>>

tomb_exists ==
    /\ pc = "tomb_exists"
    /\ \E ok \in BOOLEAN :
          /\ Issue("exists", TOMBSTONES, "", Flag(root), ok)
          /\ IF ~ok THEN Raise("ADBError") /\ UNCHANGED log
             ELSE IF dev_tombs.exists
                  THEN Goto("tomb_chmod_dir") /\ UNCHANGED <<exc, retval, log>>
                  ELSE /\ Logged("tombstone check skipped")
                       /\ Return(None)
                       /\ UNCHANGED exc
    /\ UNCHANGED <<entry, remote_profile_dir, study, perftest, device, argv, locals, host, passes>>

tomb_chmod_dir ==
    /\ pc = "tomb_chmod_dir"
    /\ \E ok \in BOOLEAN :
          /\ Issue("chmod", TOMBSTONES, "", Flag(root), ok)
          /\ IF ok THEN Goto("tomb_chmod_files") /\ UNCHANGED <<exc, retval>>
             ELSE Raise("ADBError")
    /\ UNCHANGED <<entry, remote_profile_dir, study, perftest, device, argv, locals, host, log, passes>>

tomb_chmod_files ==
    /\ pc = "tomb_chmod_files"
    /\ \E ok \in BOOLEAN :
          /\ Issue("chmod", TOMBSTONES \o "/*", "mask=666", Flag(root), ok)
          /\ IF ok THEN Goto("tomb_pull") /\ UNCHANGED <<exc, retval>>
             ELSE Raise("ADBError")
    /\ UNCHANGED <<entry, remote_profile_dir, study, perftest, device, argv, locals, host, log, passes>>

\* a pull whose failure is passed over: the delete follows all the same
tomb_pull_then_delete ==
    /\ pc = "tomb_pull"
    /\ \E ok \in BOOLEAN :
          /\ Issue("pull", TOMBSTONES, upload_dir, "", ok)
          /\ \E part \in SUBSET dev_tombs.files :
                /\ ok => part = dev_tombs.files
                /\ up_tombs' = pulled(up_tombs, part)
          /\ Invoke("dt_rm", TRUE, "tomb_rename")
          /\ UNCHANGED <<exc, retval>>
    /\ UNCHANGED <<entry, remote_profile_dir, study, perftest, device, argv, locals, staging, up_files,
                   up_dumps, log, passes>>

\* self.adb.pull(TOMBSTONES, self.upload_dir); self.delete_tombstones():
\* the files of the directory arrive in upload_dir; a pull that fails may have
\* brought some of them
tomb_pull ==
    /\ pc = "tomb_pull"
    /\ \E ok \in BOOLEAN :
          /\ Issue("pull", TOMBSTONES, upload_dir, "", ok)
          /\ IF ok
             THEN /\ up_tombs' = pulled(up_tombs, dev_tombs.files)
                  /\ Invoke("dt_rm", TRUE, "tomb_rename")
                  /\ UNCHANGED <<exc, retval>>
             ELSE /\ \E part \in SUBSET dev_tombs.files :
                        up_tombs' = pulled(up_tombs, part)
                  /\ Raise("ADBError")
    /\ UNCHANGED <<entry, remote_profile_dir, study, perftest, device, argv, locals, staging, up_files,
                   up_dumps, log, passes>>

\* for f in glob.glob(...): for i in xrange(1, sys.maxint): ... os.rename
tomb_rename ==
    /\ pc = "tomb_rename"
    /\ up_tombs' = renamed(up_tombs)
    /\ Return(None)
    /\ UNCHANGED <<entry, exc, remote_profile_dir, study, perftest, device, argv, locals, staging,
                   up_files, up_dumps, oplog, log, passes>>

(***************************************************************************)
(* get_crashes.                                                            *)
(***************************************************************************)
\* get_crashes without its call of check_for_anr_traces
gc_anr_skipped ==
    /\ pc = "gc_anr"
    /\ Goto("gc_tomb")
    /\ crashes' = <<>>
    /\ UNCHANGED <<entry, exc, retval, remote_profile_dir, study, perftest, device, argv,
                   java_exception, errors, t, temp_upload_dir, dump_files, host,
                   oplog, log, passes>>

\* crashes = []; self.check_for_anr_traces(); get_crashes passes no root
gc_anr ==
    /\ pc = "gc_anr"
    /\ Invoke("anr_exists", TRUE, "gc_tomb")
    /\ crashes' = <<>>
    /\ UNCHANGED <<entry, exc, retval, remote_profile_dir, study, perftest, device, argv,
                   java_exception, errors, t, temp_upload_dir, dump_files, host,
                   oplog, log, passes>>

gc_tomb ==
    /\ pc = "gc_tomb"
    /\ Invoke("tomb_exists", TRUE, "gc_is_dir")
    /\ UNCHANGED <<entry, exc, retval, remote_profile_dir, study, perftest, device, argv, locals,
                   host, oplog, log, passes>>

\* if not self.remote_dump_dir or not self.adb.is_dir(self.remote_dump_dir, root=root)
gc_is_dir ==
    /\ pc = "gc_is_dir"
    /\ IF remote_dump_dir = None
       THEN /\ Logged("No crash directory")
            /\ Return(crashes)
            /\ UNCHANGED <<exc, oplog>>
       ELSE \E ok \in BOOLEAN :
               /\ Issue("is_dir", remote_dump_dir[1], "", Flag(root), ok)
               /\ IF ~ok THEN Raise("ADBError") /\ UNCHANGED log
                  ELSE IF dev_dumps.exists
                       THEN Goto("gc_mkdtemp") /\ UNCHANGED <<exc, retval, log>>
                       ELSE /\ Logged("No crash directory")
                            /\ Return(crashes)
                            /\ UNCHANGED exc
    /\ UNCHANGED <<entry, remote_profile_dir, study, perftest, device, argv, locals, host, passes>>

\* temp_upload_dir = tempfile.mkdtemp(): a new directory of a name not in use
gc_mkdtemp ==
    /\ pc = "gc_mkdtemp"
    /\ \E d \in TmpNames \ {s.dir : s \in staging} :
          /\ temp_upload_dir' = <<d>>
          /\ staging' = staging \cup {[dir |-> d, files |-> {}]}
    /\ Goto("gc_chmod")
    /\ UNCHANGED <<entry, exc, retval, remote_profile_dir, study, perftest, device, argv,
                   java_exception, errors, crashes, t, dump_files, up_files,
                   up_tombs, up_dumps, oplog, log, passes>>

gc_chmod ==
    /\ pc = "gc_chmod"
    /\ \E ok \in BOOLEAN :
          /\ Issue("chmod", remote_dump_dir[1], "recursive", Flag(root), ok)
          /\ IF ok THEN Goto("gc_pull") /\ UNCHANGED <<exc, retval>>
             ELSE Raise("ADBError")
    /\ UNCHANGED <<entry, remote_profile_dir, study, perftest, device, argv, locals, host, log, passes>>

\* a pull that is followed by the rm whatever clean is
gc_pull_then_rm ==
    /\ pc = "gc_pull"
    /\ \E ok \in BOOLEAN :
          /\ Issue("pull", remote_dump_dir[1], temp_upload_dir[1], "", ok)
          /\ IF ok
             THEN /\ staging' = AddStaged(temp_upload_dir[1], dev_dumps.files)
                  /\ Goto("gc_rm")
                  /\ UNCHANGED <<exc, retval>>
             ELSE Raise("ADBError") /\ UNCHANGED staging
    /\ UNCHANGED <<entry, remote_profile_dir, study, perftest, device, argv, locals, up_files,
                   up_tombs, up_dumps, log, passes>>

\* self.adb.pull(self.remote_dump_dir, temp_upload_dir); if clean: ...
gc_pull ==
    /\ pc = "gc_pull"
    /\ \E ok \in BOOLEAN :
          /\ Issue("pull", remote_dump_dir[1], temp_upload_dir[1], "", ok)
          /\ IF ok
             THEN /\ staging' = AddStaged(temp_upload_dir[1], dev_dumps.files)
                  /\ Goto(IF clean THEN "gc_rm" ELSE "gc_pending_is_dir")
                  /\ UNCHANGED <<exc, retval>>
             ELSE Raise("ADBError") /\ UNCHANGED staging
    /\ UNCHANGED <<entry, remote_profile_dir, study, perftest, device, argv, locals, up_files,
                   up_tombs, up_dumps, log, passes>>

\* self.adb.rm(self.remote_dump_dir + "/*", force=True, root=True)
gc_rm ==
    /\ pc = "gc_rm"
    /\ \E ok \in BOOLEAN :
          /\ Issue("rm", remote_dump_dir[1] \o "/*", "force", Flag(TRUE), ok)
          /\ IF ok
             THEN /\ dev_dumps' = Dir({})
                  /\ Goto("gc_pending_is_dir")
                  /\ UNCHANGED <<exc, retval>>
             ELSE Raise("ADBError") /\ UNCHANGED dev_dumps
    /\ UNCHANGED <<entry, remote_profile_dir, study, perftest, dev_traces, dev_tombs, dev_pending,
                   argv, locals, host, log, passes>>

gc_pending_is_dir ==
    /\ pc = "gc_pending_is_dir"
    /\ \E ok \in BOOLEAN :
          /\ Issue("is_dir", remote_pending_crashreports_dir, "", Flag(root), ok)
          /\ IF ~ok THEN Raise("ADBError")
             ELSE /\ Goto(IF dev_pending.exists THEN "gc_pending_chmod" ELSE "gc_glob")
                  /\ UNCHANGED <<exc, retval>>
    /\ UNCHANGED <<entry, remote_profile_dir, study, perftest, device, argv, locals, host, log, passes>>

gc_pending_chmod ==
    /\ pc = "gc_pending_chmod"
    /\ \E ok \in BOOLEAN :
          /\ Issue("chmod", remote_pending_crashreports_dir, "recursive", Flag(root), ok)
          /\ IF ok THEN Goto("gc_pending_pull") /\ UNCHANGED <<exc, retval>>
             ELSE Raise("ADBError")
    /\ UNCHANGED <<entry, remote_profile_dir, study, perftest, device, argv, locals, host, log, passes>>

gc_pending_pull ==
    /\ pc = "gc_pending_pull"
    /\ \E ok \in BOOLEAN :
          /\ Issue("pull", remote_pending_crashreports_dir, temp_upload_dir[1], "", ok)
          /\ IF ok
             THEN /\ staging' = AddStaged(temp_upload_dir[1], dev_pending.files)
                  /\ Goto(IF clean THEN "gc_pending_rm" ELSE "gc_glob")
                  /\ UNCHANGED <<exc, retval>>
             ELSE Raise("ADBError") /\ UNCHANGED staging
    /\ UNCHANGED <<entry, remote_profile_dir, study, perftest, device, argv, locals, up_files,
                   up_tombs, up_dumps, log, passes>>

gc_pending_rm ==
    /\ pc = "gc_pending_rm"
    /\ \E ok \in BOOLEAN :
          /\ Issue("rm", remote_pending_crashreports_dir \o "/*", "force", Flag(TRUE), ok)
          /\ IF ok
             THEN /\ dev_pending' = Dir({})
                  /\ Goto("gc_glob")
                  /\ UNCHANGED <<exc, retval>>
             ELSE Raise("ADBError") /\ UNCHANGED dev_pending
    /\ UNCHANGED <<entry, remote_profile_dir, study, perftest, dev_traces, dev_tombs, dev_dumps,
                   argv, locals, host, log, passes>>

\* dump_files = [...glob...]; the cap at max_dumps and its warning
gc_glob ==
    /\ pc = "gc_glob"
    /\ \E order \in ListingOrders :
          LET found == pairs(temp_upload_dir[1],
                             glob_dmp(StagedFiles(temp_upload_dir[1]), order))
          IN  /\ dump_files' = capped(found)
              /\ IF truncation_logged(found)
                 THEN Logged("Found dump files -- limited") ELSE UNCHANGED log
    /\ Goto("gc_process")
    /\ UNCHANGED <<entry, exc, retval, remote_profile_dir, study, perftest, device, argv,
                   java_exception, errors, crashes, t, temp_upload_dir, host,
                   oplog, passes>>

\* for path, extra in dump_files: the copies to upload_dir (an exception of a
\* copy is logged), _process_dump_file, crashes.append.  The IndexError of
\* _process_dump_file leaves get_crashes at the first pair.
gc_process ==
    /\ pc = "gc_process"
    /\ \E binary_exists \in BOOLEAN, run \in StackwalkRuns, unwritable \in UnwritableSets :
          IF dump_files # <<>>
             /\ process_dump_file_raises(symbols_path, stackwalk_binary, binary_exists, run)
          THEN /\ up_dumps' = up_dumps \cup copied(SubSeq(dump_files, 1, 1), unwritable)
               /\ IF copy_failed(SubSeq(dump_files, 1, 1), unwritable)
                  THEN Logged("Attempting to copy to upload directory")
                  ELSE UNCHANGED log
               /\ Raise("IndexError")
               /\ UNCHANGED crashes
          ELSE /\ up_dumps' = up_dumps \cup copied(dump_files, unwritable)
               /\ IF copy_failed(dump_files, unwritable)
                  THEN Logged("Attempting to copy to upload directory")
                  ELSE UNCHANGED log
               /\ crashes' = crashes \o reports(dump_files, symbols_path,
                                                stackwalk_binary, binary_exists, run)
               /\ Goto("gc_rmtree")
               /\ UNCHANGED <<exc, retval>>
    /\ UNCHANGED <<entry, remote_profile_dir, study, perftest, device, argv, java_exception, errors,
                   t, temp_upload_dir, dump_files, staging, up_files, up_tombs,
                   oplog, passes>>

\* a removal that takes self.upload_dir for the directory to remove
gc_rmtree_of_upload_dir ==
    /\ pc = "gc_rmtree"
    /\ \E ok \in BOOLEAN :
          IF ok
          THEN /\ up_files' = {} /\ up_tombs' = {} /\ up_dumps' = {}
               /\ UNCHANGED log
          ELSE /\ Logged("Attempting to remove upload directory")
               /\ UNCHANGED <<up_files, up_tombs, up_dumps>>
    /\ Return(crashes)
    /\ UNCHANGED <<entry, exc, remote_profile_dir, study, perftest, device, argv, locals, staging,
                   oplog, passes>>

\* try: shutil.rmtree(temp_upload_dir) except: LOGGER.exception; return crashes
gc_rmtree ==
    /\ pc = "gc_rmtree"
    /\ \E ok \in BOOLEAN :
          IF ok
          THEN /\ staging' = {s \in staging : s.dir # temp_upload_dir[1]}
               /\ UNCHANGED log
          ELSE /\ Logged("Attempting to remove upload directory")
               /\ UNCHANGED staging
    /\ Return(crashes)
    /\ UNCHANGED <<entry, exc, remote_profile_dir, study, perftest, device, argv, locals, up_files,
                   up_tombs, up_dumps, oplog, passes>>

(***************************************************************************)
(* get_errors.                                                             *)
(***************************************************************************)
\* errors = []; if java_exception: errors.append(java_exception)
errors_start(exception) == IF exception # None THEN <<exception[1]>> ELSE <<>>

\* the crash reports put in front of what was collected before
errors_extend_in_front(errs, got) == got \o errs

\* errors.extend(self.get_crashes(...))
errors_extend(errs, got) == errs \o got

\* java_exception = self.get_java_exception(): the logcat is read from the
\* device; then get_crashes is called with its default root=True
ge_java ==
    /\ pc = "ge_java"
    /\ \E ok \in BOOLEAN :
          /\ Issue("get_logcat", "", "", "", ok)
          /\ IF ok
             THEN \E logcat \in Logcats :
                     /\ java_exception' = get_java_exception(logcat)
                     /\ errors' = errors_start(get_java_exception(logcat))
                     /\ IF logcat_truncated(logcat)
                        THEN Logged("Logcat is truncated") ELSE UNCHANGED log
                     /\ Invoke("gc_anr", TRUE, "ge_extend")
                     /\ UNCHANGED <<exc, retval>>
             ELSE /\ Raise("ADBError")
                  /\ UNCHANGED <<java_exception, errors, log>>
    /\ UNCHANGED <<entry, remote_profile_dir, study, perftest, device, argv, crashes, t,
                   temp_upload_dir, dump_files, host, passes>>

ge_extend ==
    /\ pc = "ge_extend"
    /\ errors' = errors_extend(errors, retval)
    /\ Return(errors')
    /\ UNCHANGED <<entry, exc, remote_profile_dir, study, perftest, device, argv, java_exception,
                   crashes, t, temp_upload_dir, dump_files, host, oplog, log, passes>>

(***************************************************************************)
(* clear, delete_crash_dumps.                                              *)
(***************************************************************************)
clear_anr ==
    /\ pc = "clear_anr"
    /\ Invoke("dat_rm", TRUE, "clear_tombstones")
    /\ UNCHANGED <<entry, exc, retval, remote_profile_dir, study, perftest, device, argv, locals,
                   host, oplog, log, passes>>

clear_tombstones ==
    /\ pc = "clear_tombstones"
    /\ Invoke("dt_rm", TRUE, "clear_dumps")
    /\ UNCHANGED <<entry, exc, retval, remote_profile_dir, study, perftest, device, argv, locals,
                   host, oplog, log, passes>>

\* self.adb.rm(os.path.join(self.remote_profile_dir, 'minidumps', '*'), ...):
\* os.path.join(None, ...) raises AttributeError
clear_dumps ==
    /\ pc = "clear_dumps"
    /\ IF remote_profile_dir = None
       THEN Raise("AttributeError") /\ UNCHANGED <<oplog, dev_dumps>>
       ELSE \E ok \in BOOLEAN :
               /\ Issue("rm",
                        IF remote_profile_dir[1] = "" THEN "minidumps/*"
                        ELSE remote_profile_dir[1] \o "/minidumps/*",
                        "force recursive", Flag(TRUE), ok)
               /\ IF ok
                  THEN /\ dev_dumps' = IF dev_dumps.exists THEN Dir({}) ELSE dev_dumps
                       /\ Return(None)
                       /\ UNCHANGED exc
                  ELSE Raise("ADBError") /\ UNCHANGED dev_dumps
    /\ UNCHANGED <<entry, remote_profile_dir, study, perftest, dev_traces, dev_tombs, dev_pending,
                   argv, locals, host, log, passes>>

(***************************************************************************)
(* get_java_exception, statement by statement.                             *)
(***************************************************************************)
Call_get_java_exception ==
    /\ passes = 0
    /\ Enter("get_java_exception", TRUE, "gje_get_logcat")
    /\ UNCHANGED argv

\* logcat = self.adb.get_logcat(), outside any try
gje_get_logcat ==
    /\ pc = "gje_get_logcat"
    /\ \E ok \in BOOLEAN :
          /\ Issue("get_logcat", "", "", "", ok)
          /\ IF ok
             THEN /\ \E lines \in LogcatInputs : adb_logcat' = lines
                  /\ scan_i' = 1
                  /\ Goto("gje_line")
                  /\ UNCHANGED <<exc, retval>>
             ELSE /\ Raise("ADBError")
                  /\ UNCHANGED <<adb_logcat, scan_i>>
    /\ UNCHANGED <<entry, remote_profile_dir, device, argv, locals, host, log,
                   passes, stackwalk_exists, stackwalk_run, stack_info, perftest>>

\* a scan that goes on to the last line that holds a marker
gje_line_to_last_marker ==
    /\ pc = "gje_line"
    /\ IF scan_i > Len(adb_logcat)
       THEN Return(None) /\ UNCHANGED <<scan_i, log>>
       ELSE IF \/ ~HasMarker(adb_logcat[scan_i])
               \/ \E j \in (scan_i + 1)..Len(adb_logcat) : HasMarker(adb_logcat[j])
            THEN scan_i' = scan_i + 1 /\ Goto("gje_line") /\ UNCHANGED <<retval, log>>
            ELSE IF Len(adb_logcat) >= scan_i + 2
                 THEN /\ Return(exception_at(adb_logcat, scan_i))
                      /\ UNCHANGED <<scan_i, log>>
                 ELSE /\ Logged("Logcat is truncated")
                      /\ Return(None)
                      /\ UNCHANGED scan_i
    /\ UNCHANGED <<entry, exc, remote_profile_dir, device, argv, locals, host,
                   oplog, passes, adb_logcat, stackwalk_exists, stackwalk_run,
                   stack_info, perftest>>

\* one turn of "for i, line in enumerate(logcat)": the loop ends with the
\* lines and returns exception = None; a line without a marker is passed; a
\* line with a marker decides, and "break; return exception" follows
gje_line ==
    /\ pc = "gje_line"
    /\ IF scan_i > Len(adb_logcat)
       THEN Return(None) /\ UNCHANGED <<scan_i, log>>
       ELSE IF ~HasMarker(adb_logcat[scan_i])
            THEN scan_i' = scan_i + 1 /\ Goto("gje_line") /\ UNCHANGED <<retval, log>>
            ELSE IF Len(adb_logcat) >= scan_i + 2
                 THEN /\ Return(exception_at(adb_logcat, scan_i))
                      /\ UNCHANGED <<scan_i, log>>
                 ELSE /\ Logged("Logcat is truncated")
                      /\ Return(None)
                      /\ UNCHANGED scan_i
    /\ UNCHANGED <<entry, exc, remote_profile_dir, device, argv, locals, host,
                   oplog, passes, adb_logcat, stackwalk_exists, stackwalk_run,
                   stack_info, perftest>>

(***************************************************************************)
(* _process_dump_file and the report of its StackInfo, statement by        *)
(* statement, for one dump pair.                                           *)
(***************************************************************************)
\* the pair (path, extra) of the call
DumpPair == pairs("/tmp/tmpA", <<<<"minidumps", 1>>>>)[1]

\* the run of a call that did not run the binary: nothing is read of it
NoRun == [out |-> <<>>, err |-> <<>>, retcode |-> 0]

Call_process_dump_file ==
    /\ passes = 0
    /\ \E sp \in SymbolsPaths, sb \in StackwalkBinaries :
          /\ symbols_path' = sp
          /\ stackwalk_binary' = sb
    /\ UNCHANGED clean
    /\ Enter("_process_dump_file", TRUE, "pdf_popen")

\* "if symbols_path and stackwalk_binary and os.path.exists(stackwalk_binary)":
\* the binary is or is not on the host; p = subprocess.Popen(...);
\* (out, err) = p.communicate(); retcode = p.returncode
pdf_popen ==
    /\ pc = "pdf_popen"
    /\ \E exists \in BOOLEAN :
          /\ stackwalk_binary = None => ~exists
          /\ stackwalk_exists' = exists
          /\ IF stackwalk_runs(symbols_path, stackwalk_binary, exists)
             THEN \E p \in StackwalkInputs : stackwalk_run' = <<p>>
             ELSE stackwalk_run' = None
    /\ Goto("pdf_return")
    /\ UNCHANGED <<entry, exc, retval, remote_profile_dir, device, argv, locals, host,
                   oplog, log, passes, adb_logcat, scan_i, stack_info, perftest>>

\* the rest of _process_dump_file: the StackInfo it returns is info of the
\* for loop of get_crashes; the IndexError of lines[i+1] leaves the call
pdf_return ==
    /\ pc = "pdf_return"
    /\ LET p == IF stackwalk_run = None THEN NoRun ELSE stackwalk_run[1]
       IN  IF process_dump_file_raises(symbols_path, stackwalk_binary,
                                       stackwalk_exists, p)
           THEN Raise("IndexError") /\ UNCHANGED stack_info
           ELSE /\ stack_info' = <<process_dump_file(DumpPair[1], DumpPair[2],
                                                     symbols_path, stackwalk_binary,
                                                     stackwalk_exists, p)>>
                /\ Goto("gc_append")
                /\ UNCHANGED <<exc, retval>>
    /\ UNCHANGED <<entry, remote_profile_dir, device, argv, locals, host, oplog, log,
                   passes, adb_logcat, scan_i, stackwalk_exists, stackwalk_run,
                   perftest>>

\* stackwalk_output = [...]; signature = ...; crashes.append({...})
gc_append ==
    /\ pc = "gc_append"
    /\ crashes' = Append(crashes, ProcessCrash(stack_info[1]))
    /\ Return(crashes')
    /\ UNCHANGED <<entry, exc, remote_profile_dir, device, argv, java_exception,
                   errors, t, temp_upload_dir, dump_files, host, oplog, log, passes,
                   study, perftest>>

(***************************************************************************)
(* perftest.py, PerfTest.get_stats and PerfTest.is_stderr_below_threshold. *)
(* A datapoint is None or a dict from cache keys to the times of one run;  *)
(* None and {} are both the function without arguments.                    *)
(***************************************************************************)
\* for cachekey in ('uncached', 'cached')
CacheKeys == <<"uncached", "cached">>

\* data = [datapoint[cachekey][measurement] - datapoint[cachekey]['starttime']
\*         for datapoint in dataset if datapoint and cachekey in datapoint]
RECURSIVE data_of(_, _, _)
data_of(points, cachekey, measurement) ==
    IF points = <<>> THEN <<>>
    ELSE (IF cachekey \in DOMAIN Head(points)
          THEN <<Head(points)[cachekey][measurement] - Head(points)[cachekey].starttime>>
          ELSE <<>>)
         \o data_of(Tail(points), cachekey, measurement)

RECURSIVE sum(_)
sum(values) == IF values = <<>> THEN 0 ELSE Head(values) + sum(Tail(values))

RECURSIVE sum_of_squares(_)
sum_of_squares(values) ==
    IF values = <<>> THEN 0
    ELSE Head(values) * Head(values) + sum_of_squares(Tail(values))

\* if stats['count'] == 1 or stats['stderrp'] >= threshold: return False,
\* for a limit above 0 and a mean that is not 0.
\* With n = count, T = sum, Q = sum of squares, get_stats has mean = T/n,
\* stddev^2 = (Q - T^2/n)/(n - 1.5), stderr^2 = stddev^2/n and
\* stderrp = 100*stderr/mean; stderrp is below 0 when the mean is, and
\* otherwise stderrp >= limit is
\* 20000*(n*Q - T^2) >= limit^2 * T^2 * (2*n - 3).
stats_reject(values, limit) ==
    LET n == Len(values)
        T == sum(values)
        Q == sum_of_squares(values)
    IN  \/ n = 1
        \/ /\ T >= 0
           /\ 20000 * (n * Q - T * T) >= limit * limit * T * T * (2 * n - 3)

Call_is_stderr_below_threshold ==
    /\ pc = "idle"
    /\ passes = 0
    /\ LET \* the times of one run: its start and its two measurements
           Samples ==
               { [starttime |-> 5, throbberstart |-> 15, throbberstop |-> 25],
                 [starttime |-> 5, throbberstart |-> 16, throbberstop |-> 26],
                 [starttime |-> 5, throbberstart |-> 5, throbberstop |-> 45] }
           Datapoints == UNION {[K -> Samples] : K \in SUBSET {"uncached", "cached"}}
       IN  /\ measurements' \in
                 { <<>>, <<"throbberstart">>, <<"throbberstop">>,
                   <<"throbberstart", "throbberstop">>,
                   <<"throbberstop", "throbberstart">> }
           /\ dataset' \in SeqsUpTo(Datapoints, MaxDatapoints)
           /\ threshold' \in {5, 10}
    /\ cachekey_i' = 1
    /\ measurement_i' = 1
    /\ entry' = "is_stderr_below_threshold"
    /\ pc' = "isbt_for"
    /\ passes' = passes + 1
    /\ UNCHANGED <<stack, root, exc, retval, remote_profile_dir, study, device, argv,
                   locals, host, oplog, log, attempt, status, message, author,
                   content_type, urlopens, sleeps, mails>>

\* one turn of "for cachekey in ...: for measurement in measurements:": the
\* first combination without data returns None, the first one with one
\* value or a standard error at or above the threshold returns False; after
\* the last turn "return True".  A result is <<>> (None), <<TRUE>> or <<FALSE>>.
\* In get_stats "100.0*r['stderr']/float(r['mean'])" of two or more values
\* whose mean is 0 raises ZeroDivisionError.
isbt_for ==
    /\ pc = "isbt_for"
    /\ IF cachekey_i > Len(CacheKeys)
       THEN Return(<<TRUE>>) /\ UNCHANGED <<exc, cachekey_i, measurement_i>>
       ELSE IF measurement_i > Len(measurements)
       THEN /\ cachekey_i' = cachekey_i + 1
            /\ measurement_i' = 1
            /\ Goto("isbt_for")
            /\ UNCHANGED <<exc, retval>>
       ELSE LET values == data_of(dataset, CacheKeys[cachekey_i],
                                 measurements[measurement_i])
            IN  IF values = <<>>
                THEN Return(None) /\ UNCHANGED <<exc, cachekey_i, measurement_i>>
                ELSE IF Len(values) # 1 /\ sum(values) = 0
                THEN Raise("ZeroDivisionError") /\ UNCHANGED <<cachekey_i, measurement_i>>
                ELSE IF stats_reject(values, threshold)
                THEN Return(<<FALSE>>) /\ UNCHANGED <<exc, cachekey_i, measurement_i>>
                ELSE /\ measurement_i' = measurement_i + 1
                     /\ UNCHANGED cachekey_i
                     /\ Goto("isbt_for")
                     /\ UNCHANGED <<exc, retval>>
    /\ UNCHANGED <<entry, remote_profile_dir, study, device, argv, locals, host, oplog,
                   log, passes, measurements, dataset, threshold, attempt, status,
                   message, author, content_type, urlopens, sleeps, mails>>

(***************************************************************************)
(* perftest.py, PerfTest.publish_results: the result is sent to the server *)
(* in at most max_attempts attempts.  An attempt, urllib2.urlopen(req),    *)
(* f.read(), f.close(), ends: it succeeds or raises.                       *)
(***************************************************************************)
Call_publish_results ==
    /\ pc = "idle"
    /\ passes = 0
    \* self.status before the call; PhoneTest.EXCEPTION is "EXCEPTION"
    /\ status' \in {"PASS", "TESTFAILED", "EXCEPTION"}
    /\ entry' = "publish_results"
    /\ pc' = "pr_author"
    /\ passes' = passes + 1
    /\ UNCHANGED <<stack, root, exc, retval, remote_profile_dir, study, device, argv,
                   locals, host, oplog, log, measurements, dataset, threshold,
                   cachekey_i, measurement_i, attempt, message, author,
                   content_type, urlopens, sleeps, mails>>

\* author = None; if self.build.tree == 'try': rev_json = get_remote_json(...);
\* if rev_json: author = rev_json['pushuser']
pr_author ==
    /\ pc = "pr_author"
    /\ \E tree \in {"try", "mozilla-central"}, rev_json \in {None, <<"pushuser@example.com">>} :
          author' = IF tree = "try" THEN rev_json ELSE None
    /\ Goto("pr_encode")
    /\ UNCHANGED <<entry, exc, retval, remote_profile_dir, study, device, argv, locals,
                   host, oplog, log, passes, measurements, dataset, threshold,
                   cachekey_i, measurement_i, attempt, status, message,
                   content_type, urlopens, sleeps, mails>>

\* if self._signer: ... 'application/jwt' else: ... 'application/json; charset=utf-8';
\* req = urllib2.Request(...); the for loop starts with attempt = 1
pr_encode ==
    /\ pc = "pr_encode"
    /\ \E signer \in BOOLEAN :
          content_type' = IF signer THEN "application/jwt"
                          ELSE "application/json; charset=utf-8"
    /\ attempt' = 1
    /\ Goto("pr_urlopen")
    /\ UNCHANGED <<entry, exc, retval, remote_profile_dir, study, device, argv, locals,
                   host, oplog, log, passes, measurements, dataset, threshold,
                   cachekey_i, measurement_i, status, message, author, urlopens,
                   sleeps, mails>>

\* an attempt whose failure always leads to the wait, the last one too
pr_urlopen_never_last ==
    /\ pc = "pr_urlopen"
    /\ urlopens' = urlopens + 1
    /\ \E ok \in BOOLEAN :
          IF ok
          THEN Return(None) /\ UNCHANGED log
          ELSE /\ attempt <= max_attempts
               /\ Logged("Attempt error sending results to server")
               /\ Goto("pr_sleep")
               /\ UNCHANGED retval
    /\ UNCHANGED <<entry, exc, remote_profile_dir, study, device, argv, locals, host,
                   oplog, passes, measurements, dataset, threshold, cachekey_i,
                   measurement_i, attempt, status, message, author, content_type,
                   sleeps, mails>>

\* try: f = urllib2.urlopen(req); f.read(); f.close(); return
\* except Exception, e: if attempt < max_attempts: warning ...
\* else: self.loggerdeco.exception('Error sending results to server') ...
pr_urlopen ==
    /\ pc = "pr_urlopen"
    /\ urlopens' = urlopens + 1
    /\ \E ok \in BOOLEAN :
          IF ok
          THEN Return(None) /\ UNCHANGED log
          ELSE IF attempt < max_attempts
               THEN /\ Logged("Attempt error sending results to server")
                    /\ Goto("pr_sleep")
                    /\ UNCHANGED retval
               ELSE /\ Logged("Error sending results to server")
                    /\ Goto("pr_mail")
                    /\ UNCHANGED retval
    /\ UNCHANGED <<entry, exc, remote_profile_dir, study, device, argv, locals, host,
                   oplog, passes, measurements, dataset, threshold, cachekey_i,
                   measurement_i, attempt, status, message, author, content_type,
                   sleeps, mails>>

\* time.sleep(wait_time); continue: the next turn of
\* "for attempt in range(1, max_attempts+1)", or the end of the loop and of
\* the method
pr_sleep ==
    /\ pc = "pr_sleep"
    /\ sleeps' = Append(sleeps, wait_time)
    /\ IF attempt < max_attempts
       THEN attempt' = attempt + 1 /\ Goto("pr_urlopen") /\ UNCHANGED retval
       ELSE Return(None) /\ UNCHANGED attempt
    /\ UNCHANGED <<entry, exc, remote_profile_dir, study, device, argv, locals, host,
                   oplog, log, passes, measurements, dataset, threshold, cachekey_i,
                   measurement_i, status, message, author, content_type, urlopens,
                   mails>>

\* self.worker_subprocess.mailer.send('%s attempt %s/%s Error sending ...')
pr_mail ==
    /\ pc = "pr_mail"
    /\ mails' = Append(mails, attempt)
    /\ Goto("pr_status")
    /\ UNCHANGED <<entry, exc, retval, remote_profile_dir, study, device, argv, locals,
                   host, oplog, log, passes, measurements, dataset, threshold,
                   cachekey_i, measurement_i, attempt, status, message, author,
                   content_type, urlopens, sleeps>>

\* self.status = PhoneTest.EXCEPTION; self.message = message;
\* self.update_status(message=message); it was the last turn of the loop
pr_status ==
    /\ pc = "pr_status"
    /\ status' = "EXCEPTION"
    /\ message' = <<"Error sending results to server">>
    /\ Return(None)
    /\ UNCHANGED <<entry, exc, remote_profile_dir, study, device, argv, locals, host,
                   oplog, log, passes, measurements, dataset, threshold, cachekey_i,
                   measurement_i, attempt, author, content_type, urlopens, sleeps,
                   mails>>

(***************************************************************************)
(* The specifications.                                                     *)
(***************************************************************************)
anr_steps == anr_exists \/ anr_cat \/ anr_copy \/ dat_rm \/ dat_echo \/ dat_chmod

tombstone_steps ==
    \/ tomb_exists \/ tomb_chmod_dir \/ tomb_chmod_files \/ tomb_pull \/ dt_rm
    \/ tomb_rename

get_crashes_steps ==
    \/ gc_anr \/ gc_tomb \/ gc_is_dir \/ gc_mkdtemp \/ gc_chmod \/ gc_pull \/ gc_rm
    \/ gc_pending_is_dir \/ gc_pending_chmod \/ gc_pending_pull \/ gc_pending_rm
    \/ gc_glob \/ gc_process \/ gc_rmtree

\* one call of a method of the processor, from construction to its end
Next ==
    \/ Call_get_errors \/ Call_get_crashes \/ Call_check_for_anr_traces
    \/ Call_check_for_tombstones \/ Call_clear
    \/ ge_java \/ ge_extend
    \/ get_crashes_steps
    \/ anr_steps
    \/ tombstone_steps
    \/ clear_anr \/ clear_tombstones \/ clear_dumps

Spec == Init /\ [][Next]_vars

\* one call of get_crashes on a device with many dump files
NextCap ==
    \/ Call_get_crashes
    \/ get_crashes_steps
    \/ anr_exists \/ tomb_exists

SpecCap == InitCap /\ [][NextCap]_vars

\* check_for_tombstones passes one after the other over one upload directory
NextTombstones ==
    \/ Call_check_for_tombstones \/ Finish \/ Tombstone
    \/ tombstone_steps

SpecTombstones == InitTombstones /\ [][NextTombstones]_vars

\* one call of get_java_exception, on any logcat of at most MaxLogcatLines lines
NextJava == Call_get_java_exception \/ gje_get_logcat \/ gje_line

SpecJava == InitBare /\ [][NextJava]_vars

\* one call of _process_dump_file and the report made of what it returns,
\* on any stdout of at most MaxOutLines lines
NextDump == Call_process_dump_file \/ pdf_popen \/ pdf_return \/ gc_append

SpecDump == InitDump /\ [][NextDump]_vars

\* one call of is_stderr_below_threshold, on any dataset of at most
\* MaxDatapoints datapoints
NextStderr == Call_is_stderr_below_threshold \/ isbt_for

SpecStderr == InitBare /\ [][NextStderr]_vars

\* one call of publish_results; the method runs in one thread and every
\* statement it reaches is executed
NextPublish ==
    \/ Call_publish_results \/ pr_author \/ pr_encode \/ pr_urlopen \/ pr_sleep
    \/ pr_mail \/ pr_status

SpecPublish == InitBare /\ [][NextPublish]_vars /\ WF_vars(NextPublish)

(***************************************************************************)
(* The properties.                                                         *)
(***************************************************************************)
\* C1: get_errors never raises: whatever the device operations do and
\* whatever minidump_stackwalk prints, the call ends by returning a list.
\* The code lets the ADBError of get_logcat, of the exists/chmod/pull/rm of
\* the tombstone check and of the dump collection, and the IndexError of
\* _process_dump_file, leave get_errors.
C1_get_errors_never_raises ==
    entry = "get_errors" => pc # "raised"

\* C2: when get_java_exception found an exception and a later removal of the
\* trace file or of the tombstone directory fails, get_errors still returns a
\* list that holds the Java exception.  The code lets the ADBError of
\* delete_tombstones leave get_errors, and the exception is lost with it.
C2_evidence_kept_when_cleanup_fails ==
    LET cleanup_failed ==
            \E i \in 1..Len(oplog) :
                /\ oplog[i].op = "rm"
                /\ oplog[i].path \in {TRACES, TOMBSTONES}
                /\ ~oplog[i].ok
    IN  (/\ entry = "get_errors"
         /\ java_exception # None
         /\ cleanup_failed
         /\ pc \in {"done", "raised"})
        => /\ pc = "done"
           /\ \E i \in 1..Len(retval) : retval[i] = java_exception[1]

\* C3: every staging directory get_crashes created is gone when the call
\* ends, however it ends.  The code removes it only on the path through the
\* last statement: an ADBError of the chmod/pull/rm/is_dir after mkdtemp, or
\* the IndexError of the analysis, leaves the directory, and so does a
\* failing rmtree.
C3_staging_removed_at_end ==
    (entry \in {"get_crashes", "get_errors"} /\ pc \in {"done", "raised"})
        => staging = {}

C5_stages_in_order ==
    LET stage(o) == IF o.op = "get_logcat" THEN 1
                    ELSE IF o.path = TRACES THEN 2
                    ELSE IF o.path \in {TOMBSTONES, TOMBSTONES \o "/*"} THEN 3
                    ELSE 4
        checked(path, k) == \E i \in 1..k : oplog[i].op = "exists" /\ oplog[i].path = path
    IN  entry \in {"get_errors", "get_crashes"}
        => /\ \A i, j \in 1..Len(oplog) : i < j => stage(oplog[i]) <= stage(oplog[j])
           /\ \A k \in 1..Len(oplog) :
                 /\ stage(oplog[k]) = 4 => checked(TRACES, k) /\ checked(TOMBSTONES, k)
                 /\ stage(oplog[k]) = 3 => checked(TRACES, k)
           /\ (entry = "get_errors" /\ oplog # <<>>) => oplog[1].op = "get_logcat"
           /\ (temp_upload_dir # None \/ "No crash directory" \in log)
                 => checked(TRACES, Len(oplog)) /\ checked(TOMBSTONES, Len(oplog))

\* C5, its case: a get_errors call that read the trace file, pulled the
\* tombstones and pulled the dumps
C5_all_stages_ran ==
    /\ entry = "get_errors"
    /\ pc = "done"
    /\ \E i \in 1..Len(oplog) : oplog[i].path = TRACES /\ oplog[i].args = "cat"
    /\ \E i \in 1..Len(oplog) : oplog[i].path = TOMBSTONES /\ oplog[i].op = "pull"
    /\ remote_dump_dir # None
    /\ \E i \in 1..Len(oplog) : oplog[i].path = remote_dump_dir[1] /\ oplog[i].op = "pull"

\* C6, as stated: with 10 or more dump files in the staging directory
\* get_crashes processes the first 10 of the listing and logs the truncation;
\* with fewer than 10 it processes all of them and logs no truncation.  With
\* exactly 10 files the code logs nothing.
C6_cap_from_ten ==
    LET d == temp_upload_dir[1]
        n == Cardinality(StagedFiles(d))
        listing(order) == pairs(d, glob_dmp(StagedFiles(d), order))
    IN  (entry = "get_crashes" /\ pc \in {"gc_process", "gc_rmtree"})
        => /\ IF n >= 10
              THEN /\ \E order \in ListingOrders :
                         dump_files = SubSeq(listing(order), 1, 10)
                   /\ "Found dump files -- limited" \in log
              ELSE /\ \E order \in ListingOrders : dump_files = listing(order)
                   /\ "Found dump files -- limited" \notin log
           /\ pc = "gc_rmtree"
                 => /\ Len(crashes) = Len(dump_files)
                    /\ \A i \in 1..Len(dump_files) :
                          crashes[i].stackwalk_output[1].val = <<dump_files[i][1]>>

\* C6, amended: with more than 10 dump files in the staging directory
\* get_crashes processes the first 10 of the listing and logs the truncation;
\* with 10 or fewer it processes all of them and logs no truncation.
C6_cap_above_ten ==
    LET d == temp_upload_dir[1]
        n == Cardinality(StagedFiles(d))
        listing(order) == pairs(d, glob_dmp(StagedFiles(d), order))
    IN  (entry = "get_crashes" /\ pc \in {"gc_process", "gc_rmtree"})
        => /\ IF n > 10
              THEN /\ \E order \in ListingOrders :
                         dump_files = SubSeq(listing(order), 1, 10)
                   /\ "Found dump files -- limited" \in log
              ELSE /\ \E order \in ListingOrders : dump_files = listing(order)
                   /\ "Found dump files -- limited" \notin log
           /\ pc = "gc_rmtree"
                 => /\ Len(crashes) = Len(dump_files)
                    /\ \A i \in 1..Len(dump_files) :
                          crashes[i].stackwalk_output[1].val = <<dump_files[i][1]>>

\* C6, its case: 11 dump files were staged, 10 reports were made and the
\* truncation was logged
C6_eleven_staged_ten_processed ==
    /\ entry = "get_crashes"
    /\ pc = "gc_rmtree"
    /\ Cardinality(StagedFiles(temp_upload_dir[1])) = 11
    /\ Len(crashes) = 10
    /\ "Found dump files -- limited" \in log

\* C7: over any sequence of check_for_tombstones passes on one upload
\* directory, the rename of a pulled tombstone_XX gives it the name
\* tombstone_XX.n.txt of the smallest n >= 1 that is not taken, a renamed
\* tombstone stays in the directory with its content, no two files have one
\* name, and when a pass returns no tombstone_XX is left without its new name.
C7_rename_never_overwrites ==
    [][LET unrenamed(tombs) ==
               {e \in tombs : e[2] = 0 /\ matches_tombstone_glob(e[1])}
           taken(f, n) == \E x \in up_tombs : x[1] = f /\ x[2] = n
       IN  /\ \A e \in up_tombs : e[2] > 0 => e \in up_tombs'
           /\ \A x, y \in up_tombs' : (x[1] = y[1] /\ x[2] = y[2]) => x = y
           /\ pc = "tomb_rename"
                 => \A e \in unrenamed(up_tombs) :
                       \E n \in 1..(Cardinality(up_tombs) + 1) :
                          /\ ~taken(e[1], n)
                          /\ \A j \in 1..(n - 1) : taken(e[1], j)
                          /\ <<e[1], n, e[3]>> \in up_tombs'
           /\ pc' = "done" => unrenamed(up_tombs') = {}]_vars

\* C7, its case: tombstone_01.1.txt of an earlier pass and tombstone_01.2.txt
\* of a later one, of different content, are both in the upload directory
C7_second_tombstone_beside_first ==
    /\ pc = "done"
    /\ passes >= 2
    /\ \E c1, c2 \in 0..MaxTombstonePasses :
          /\ c1 # c2
          /\ <<<<"tombstone_", "0", "1">>, 1, c1>> \in up_tombs
          /\ <<<<"tombstone_", "0", "1">>, 2, c2>> \in up_tombs

\* C8: check_for_anr_traces with the trace file present and every device
\* operation succeeding writes the text read from the device to
\* <upload_dir>/traces.txt and clears the device file (removed, recreated
\* empty, mode 666).  The code opens <upload_dir>/traces.txt/wb for reading:
\* the IOError is caught, nothing is written and nothing is cleared.
C8_traces_copied_then_cleared ==
    LET cat_done == \E i \in 1..Len(oplog) :
                        oplog[i].path = TRACES /\ oplog[i].args = "cat"
        all_ok == \A i \in 1..Len(oplog) : oplog[i].ok
    IN  (/\ entry = "check_for_anr_traces"
         /\ pc = "done"
         /\ cat_done
         /\ all_ok)
        => /\ [path |-> "traces.txt", text |-> AnrText] \in up_files
           /\ dev_traces = [exists |-> TRUE, text |-> EmptyText, mode |-> "666"]

\* C9: when check_for_anr_traces fails to read the trace file from the device
\* or to write the host copy, it logs the failure and returns normally, and
\* no clearing operation (rm, echo >, chmod) is issued on the device trace
\* file: the trace stays on the device as it was.
C9_no_clearing_after_failure ==
    LET clearing(o) == /\ o.path = TRACES
                       /\ o.op \in {"rm", "chmod"} \/ o.args = "echo >"
    IN  (/\ entry \in {"check_for_anr_traces", "get_crashes", "get_errors"}
         /\ "Error pulling traces" \in log)
        => /\ \A i \in 1..Len(oplog) : ~clearing(oplog[i])
           /\ dev_traces = [exists |-> TRUE, text |-> AnrText, mode |-> "600"]
           /\ entry = "check_for_anr_traces" => pc = "done" /\ retval = None

\* C9, its case: a check_for_anr_traces call whose cat of the trace file failed
C9_read_failed ==
    /\ entry = "check_for_anr_traces"
    /\ pc = "done"
    /\ "Error pulling traces" \in log
    /\ oplog[Len(oplog)] = DevOp("shell_output", TRACES, "cat", Flag(root), FALSE)

\* C10: when the profile path is unset or the minidump directory is absent,
\* get_crashes returns the empty list, having made no staging directory,
\* issued no operation on the pending crash report directory and no
\* chmod/pull/rm for dumps; and get_errors on a device without artifacts,
\* with no marker in the logcat it read, returns the empty list.  The code
\* lets the ADBError of the exists/chmod/pull/rm of the ANR and tombstone
\* checks and of is_dir leave both methods.
C10_empty_list_without_dump_dir ==
    LET no_dump_dir == remote_dump_dir = None \/ ~dev_dumps.exists
        dump_op(o) == /\ o.path \notin {"", TRACES, TOMBSTONES, TOMBSTONES \o "/*"}
                      /\ o.op # "is_dir" \/ o.path = remote_pending_crashreports_dir
        logcat_read == oplog # <<>> /\ oplog[1].op = "get_logcat" /\ oplog[1].ok
        no_artifacts == /\ ~dev_traces.exists /\ ~dev_tombs.exists
                        /\ ~dev_dumps.exists /\ ~dev_pending.exists
    IN  /\ (entry = "get_crashes" /\ no_dump_dir /\ pc \in {"done", "raised"})
            => /\ pc = "done"
               /\ retval = <<>>
               /\ temp_upload_dir = None
               /\ staging = {}
               /\ \A i \in 1..Len(oplog) : ~dump_op(oplog[i])
        /\ (/\ entry = "get_errors"
            /\ logcat_read
            /\ java_exception = None
            /\ no_artifacts
            /\ pc \in {"done", "raised"})
            => pc = "done" /\ retval = <<>>

\* C11: the for loop of get_crashes appends one PROCESS_CRASH report for each
\* dump pair, in order, so there are min(number of *.dmp files staged, 10)
\* reports; a copy to the upload directory that fails is logged, and every
\* other file of every pair is still copied and every pair still reported.
C11_one_report_per_pair ==
    [][(pc = "gc_process" /\ pc' = "gc_rmtree")
       => LET n == Cardinality(StagedFiles(temp_upload_dir[1]))
              sources == {dump_files[i][1] : i \in 1..Len(dump_files)}
                         \cup {dump_files[i][2] :
                                 i \in {j \in 1..Len(dump_files) :
                                           HasExtra(dump_files[j][2].name)}}
          IN  /\ Len(crashes') = IF n < 10 THEN n ELSE 10
              /\ \A i \in 1..Len(dump_files) :
                    /\ crashes'[i].reason = "PROCESS_CRASH"
                    /\ crashes'[i].stackwalk_output[1].val = <<dump_files[i][1]>>
              /\ \E failed \in UnwritableSets :
                    /\ up_dumps' = up_dumps \cup
                          {[name |-> f.name, ext |-> f.ext] :
                              f \in {g \in sources :
                                       [name |-> g.name, ext |-> g.ext] \notin failed}}
                    /\ ("Attempting to copy to upload directory" \in log')
                          <=> \E g \in sources :
                                 [name |-> g.name, ext |-> g.ext] \in failed]_vars

\* C11, its case: the copy of the first .dmp failed, the other dumps were
\* copied and all of them were reported
C11_copy_failed_all_reported ==
    /\ pc = "gc_rmtree"
    /\ "Attempting to copy to upload directory" \in log
    /\ Len(dump_files) >= 2
    /\ Len(crashes) = Len(dump_files)
    /\ [name |-> <<"minidumps", 1>>, ext |-> "dmp"] \notin up_dumps
    /\ [name |-> <<"minidumps", 2>>, ext |-> "dmp"] \in up_dumps

\* C12, as stated: when the first marker line is followed by two lines that
\* each hold a "): " token, get_java_exception returns the java-exception
\* report whose signature is the first of them, a space, the second, each
\* without everything up to and including its last "): ".  The code also
\* drops a tab that follows the "): ", and returns nothing when the first
\* of the two lines is empty after that.
C12_signature_of_next_two_lines ==
    LET has(line) == \E k \in 1..Len(line) :
                        line[k] \in {"REPORTING UNCAUGHT EXCEPTION", "FATAL EXCEPTION"}
        wellformed(line) == \E k \in 1..Len(line) : line[k] = "): "
        last(line) == CHOOSE k \in 1..Len(line) :
                         /\ line[k] = "): "
                         /\ \A j \in (k + 1)..Len(line) : line[j] # "): "
        stripped(line) == SubSeq(line, last(line) + 1, Len(line))
        m == CHOOSE i \in 1..Len(adb_logcat) :
                /\ has(adb_logcat[i])
                /\ \A j \in 1..(i - 1) : ~has(adb_logcat[j])
    IN  (/\ entry = "get_java_exception"
         /\ pc = "done"
         /\ \E i \in 1..Len(adb_logcat) : has(adb_logcat[i])
         /\ Len(adb_logcat) >= m + 2
         /\ wellformed(adb_logcat[m + 1])
         /\ wellformed(adb_logcat[m + 2]))
        => retval = <<[reason |-> "java-exception",
                       signature |-> stripped(adb_logcat[m + 1]) \o <<" ">>
                                     \o stripped(adb_logcat[m + 2])]>>

\* C12, amended: when the first marker line is followed by two lines that
\* each hold a "): " token, each is taken without everything up to and
\* including its last "): " and without one tab right after it; if the first
\* of them is then empty get_java_exception returns None, otherwise the
\* java-exception report whose signature is the first, a space, the second.
C12_signature_without_tab ==
    LET has(line) == \E k \in 1..Len(line) :
                        line[k] \in {"REPORTING UNCAUGHT EXCEPTION", "FATAL EXCEPTION"}
        wellformed(line) == \E k \in 1..Len(line) : line[k] = "): "
        last(line) == CHOOSE k \in 1..Len(line) :
                         /\ line[k] = "): "
                         /\ \A j \in (k + 1)..Len(line) : line[j] # "): "
        after(line) == SubSeq(line, last(line) + 1, Len(line))
        stripped(line) == IF after(line) # <<>> /\ after(line)[1] = "\t"
                          THEN SubSeq(after(line), 2, Len(after(line)))
                          ELSE after(line)
        m == CHOOSE i \in 1..Len(adb_logcat) :
                /\ has(adb_logcat[i])
                /\ \A j \in 1..(i - 1) : ~has(adb_logcat[j])
    IN  (/\ entry = "get_java_exception"
         /\ pc = "done"
         /\ \E i \in 1..Len(adb_logcat) : has(adb_logcat[i])
         /\ Len(adb_logcat) >= m + 2
         /\ wellformed(adb_logcat[m + 1])
         /\ wellformed(adb_logcat[m + 2]))
        => IF stripped(adb_logcat[m + 1]) = <<>>
           THEN retval = None
           ELSE retval = <<[reason |-> "java-exception",
                            signature |-> stripped(adb_logcat[m + 1]) \o <<" ">>
                                          \o stripped(adb_logcat[m + 2])]>>

\* C12, its case: the marker line of the second line of the logcat, then the
\* type line and a frame line that starts with a tab
C12_type_and_frame ==
    /\ entry = "get_java_exception"
    /\ pc = "done"
    /\ adb_logcat = <<LinePlain, LineMarker, LineType, LineFrame>>
    /\ retval = <<[reason |-> "java-exception",
                   signature |-> <<"java.lang.NullPointerException", " ",
                                   "at org.mozilla.gecko.GeckoApp$21.run(GeckoApp.java:1833)">>]>>

\* C13: get_java_exception decides at the first line that holds a marker and
\* nowhere else: the scan never goes past that line; when fewer than two
\* lines follow it the truncation is logged and the call returns None; a
\* logcat without a marker gives None; the call returns at most one report
\* and the scan raises nothing.
C13_first_marker_decides ==
    LET has(line) == \E k \in 1..Len(line) :
                        line[k] \in {"REPORTING UNCAUGHT EXCEPTION", "FATAL EXCEPTION"}
        markers == {i \in 1..Len(adb_logcat) : has(adb_logcat[i])}
    IN  entry = "get_java_exception"
        => /\ scan_i <= Len(adb_logcat) + 1
           /\ \A j \in 1..(scan_i - 1) : ~has(adb_logcat[j])
           /\ pc = "raised" => ~oplog[1].ok
           /\ pc = "done"
                 => /\ Len(retval) <= 1
                    /\ markers = {}
                          => retval = None /\ "Logcat is truncated" \notin log
                    /\ markers # {}
                          => /\ \A i \in markers : scan_i <= i
                             /\ scan_i \in markers
                             /\ IF Len(adb_logcat) < scan_i + 2
                                THEN retval = None /\ "Logcat is truncated" \in log
                                ELSE "Logcat is truncated" \notin log

\* C13, its case: a report from the first marker line, and a later marker
\* line, with fewer than two lines after it, that the scan did not reach
C13_later_marker_not_reached ==
    /\ entry = "get_java_exception"
    /\ pc = "done"
    /\ adb_logcat = <<LineMarker, LineType, LineFrame, LineFatal>>
    /\ scan_i = 1
    /\ retval # None
    /\ "Logcat is truncated" \notin log

\* C14: _process_dump_file runs minidump_stackwalk if and only if
\* symbols_path is not empty, stackwalk_binary is set and the binary exists;
\* when it does not run, stdout, stderr, return code and signature of the
\* StackInfo are None and its errors hold one string for the symbols path if
\* that is missing and one for the binary if that is unset or not found;
\* when it runs, the errors are empty.
C14_run_iff_preconditions ==
    LET ran == stackwalk_run # None
        no_symbols == symbols_path = ""
        no_binary == stackwalk_binary = None \/ ~stackwalk_exists
    IN  (entry = "_process_dump_file" /\ pc \notin {"idle", "pdf_popen"})
        => /\ ran <=> (~no_symbols /\ ~no_binary)
           /\ stack_info # None
                 => LET info == stack_info[1]
                        said(msg) == \E k \in 1..Len(info.stackwalk_errors) :
                                        info.stackwalk_errors[k] = msg
                    IN  IF ran
                        THEN info.stackwalk_errors = <<>>
                        ELSE /\ info.stackwalk_stdout = None
                             /\ info.stackwalk_stderr = None
                             /\ info.stackwalk_retcode = None
                             /\ info.signature = None
                             /\ Len(info.stackwalk_errors) =
                                   (IF no_symbols THEN 1 ELSE 0)
                                   + (IF no_binary THEN 1 ELSE 0)
                             /\ Len(info.stackwalk_errors) \in {1, 2}
                             /\ no_symbols
                                   <=> said("No symbols path given, can't process dump.")
                             /\ stackwalk_binary = None
                                   <=> said("MINIDUMP_STACKWALK not set, can't process dump.")
                             /\ (stackwalk_binary # None /\ ~stackwalk_exists)
                                   <=> said("MINIDUMP_STACKWALK binary not found")

\* C14, its case: neither a symbols path nor a binary, two strings in errors
C14_two_preconditions_missing ==
    /\ entry = "_process_dump_file"
    /\ pc = "done"
    /\ symbols_path = ""
    /\ stackwalk_binary = None
    /\ stackwalk_run = None
    /\ Len(stack_info[1].stackwalk_errors) = 2

\* C15, as stated: the stdout "Thread 3 (crashed)", " 0  libfoo.so!Bar::Baz()
\* [f.cpp : 1 + 0x0]" gives the signature "@ libfoo.so!Bar::Baz()", with the
\* module of the frame.  The pattern of the code takes "libfoo.so!" outside
\* the group.
C15_signature_with_module ==
    (/\ entry = "_process_dump_file"
     /\ stack_info # None
     /\ stackwalk_run # None
     /\ stackwalk_run[1].out =
           << <<"Thread 3 ", "(crashed)">>,
              <<" 0  ", "libfoo.so", "!", "Bar::Baz()", " ", "[", "f.cpp : 1 + 0x0]">> >>)
    => stack_info[1].signature = << <<"@ ", "libfoo.so", "!", "Bar::Baz()">> >>

\* C15, amended: the stdout "Thread 3 (crashed)", " 0  libfoo.so!Bar::Baz()
\* [f.cpp : 1 + 0x0]" gives the signature "@ Bar::Baz()": the module and its
\* "!" are not in the signature.
C15_signature_without_module ==
    (/\ entry = "_process_dump_file"
     /\ stack_info # None
     /\ stackwalk_run # None
     /\ stackwalk_run[1].out =
           << <<"Thread 3 ", "(crashed)">>,
              <<" 0  ", "libfoo.so", "!", "Bar::Baz()", " ", "[", "f.cpp : 1 + 0x0]">> >>)
    => stack_info[1].signature = << <<"@ ", "Bar::Baz()">> >>

\* C15, its case: the report of that stdout
C15_report_of_libfoo_frame ==
    /\ entry = "_process_dump_file"
    /\ pc = "done"
    /\ stackwalk_run # None
    /\ stackwalk_run[1].out = <<ThreadLine, FrameLine>>
    /\ crashes[1].signature = <<"@ ", "Bar::Baz()">>

\* C16: the signature comes from the first stdout line that holds "(crashed)"
\* and the line right after it, and from nothing else: when that next line
\* has the frame 0 format the signature is "@ " and the trimmed group, when
\* it has not, or no line holds "(crashed)", the signature is None, whatever
\* the later lines are.
C16_first_crashed_line_only ==
    LET out == stackwalk_run[1].out
        crashed == {i \in 1..Len(out) : \E k \in 1..Len(out[i]) : out[i][k] = "(crashed)"}
        c == CHOOSE i \in crashed : \A j \in crashed : i <= j
        group == frame0_group(out[c + 1])
    IN  (/\ entry = "_process_dump_file"
         /\ stack_info # None
         /\ stackwalk_run # None
         /\ OutLen(out) > 3)
        => IF crashed = {} THEN stack_info[1].signature = None
           ELSE IF group = None THEN stack_info[1].signature = None
           ELSE stack_info[1].signature = << <<"@ ">> \o RStrip(LStrip(group[1])) >>

\* C16, its case: the line after the first "(crashed)" line is frame 1, a
\* second "(crashed)" line and a frame 0 line come later: no signature
C16_later_lines_ignored ==
    /\ entry = "_process_dump_file"
    /\ pc = "done"
    /\ stackwalk_run # None
    /\ stackwalk_run[1].out = <<ThreadLine, NextFrameLine, FrameLine>>
    /\ stack_info[1].signature = None

\* C17: for every stdout, also one whose first "(crashed)" line is its last
\* line, _process_dump_file returns a StackInfo and raises nothing.  The code
\* reads lines[i+1] of the "(crashed)" line i without looking whether there
\* is such a line: IndexError.
C17_no_match_is_no_fault ==
    entry = "_process_dump_file" => pc # "raised"

\* C18: when minidump_stackwalk ran and its stdout is longer than 3 bytes the
\* StackInfo has no stderr; when the stdout is 3 bytes or shorter the
\* StackInfo has the stderr of the run and no signature.
C18_stderr_kept_for_short_stdout ==
    (/\ entry = "_process_dump_file"
     /\ stack_info # None
     /\ stackwalk_run # None)
    => IF OutLen(stackwalk_run[1].out) > 3
       THEN stack_info[1].stackwalk_stderr = None
       ELSE /\ stack_info[1].stackwalk_stderr = <<stackwalk_run[1].err>>
            /\ stack_info[1].signature = None

\* C18, its case: a stdout of 3 bytes, the stderr is in the StackInfo
C18_three_bytes_of_stdout ==
    /\ entry = "_process_dump_file"
    /\ pc = "done"
    /\ stackwalk_run # None
    /\ stackwalk_run[1].out = <<ShortLine>>
    /\ stack_info[1].stackwalk_stderr = << <<"minidump.cc: ERROR">> >>

\* C19: the stackwalk_output of a PROCESS_CRASH report starts with the line
\* that names the dump file; then comes the stderr, under its title, if the
\* StackInfo has a stderr that is not empty, or else the stdout if the
\* StackInfo has one; the line of the return code ends it if and only if the
\* StackInfo has a return code and it is not 0.
C19_stackwalk_output_parts ==
    (entry = "_process_dump_file" /\ pc = "done")
    => LET info == stack_info[1]
           r == crashes[Len(crashes)].stackwalk_output
           has_err == info.stackwalk_stderr # None /\ info.stackwalk_stderr[1] # <<>>
           has_out == ~has_err /\ info.stackwalk_stdout # None
           has_code == info.stackwalk_retcode # None /\ info.stackwalk_retcode[1] # 0
           parts == [k \in 1..Len(r) |-> r[k].part]
           code == "minidump_stackwalk exited with return code"
       IN  /\ r[1] = [part |-> "Crash dump filename", val |-> <<info.minidump_path>>]
           /\ parts = <<"Crash dump filename">>
                      \o (IF has_err THEN <<"stderr from minidump_stackwalk:", "stderr">>
                          ELSE IF has_out THEN <<"stdout">> ELSE <<>>)
                      \o (IF has_code THEN <<code>> ELSE <<>>)
           /\ has_err => r[3].val = info.stackwalk_stderr
           /\ has_out => r[2].val = info.stackwalk_stdout
           /\ has_code => r[Len(r)].val = info.stackwalk_retcode
           /\ (r[Len(r)].part = code) <=> has_code

\* C19, its case: an empty stdout, a stderr and the return code 1
C19_stderr_and_return_code ==
    /\ entry = "_process_dump_file"
    /\ pc = "done"
    /\ stackwalk_run = <<[out |-> <<>>, err |-> <<"minidump.cc: ERROR">>, retcode |-> 1]>>
    /\ Len(crashes[1].stackwalk_output) = 4

\* C20: the signature of a PROCESS_CRASH report is never empty: it is the
\* "@ ..." signature of the StackInfo when there is one and "unknown top
\* frame" otherwise; with a symbols path and no stackwalk_binary the StackInfo
\* has the signature None and one string in errors, and the report has
\* "unknown top frame" and that string as its stackwalk_errors.
C20_signature_or_unknown_top_frame ==
    (entry = "_process_dump_file" /\ pc = "done")
    => LET info == stack_info[1]
           report == crashes[Len(crashes)]
       IN  /\ report.reason = "PROCESS_CRASH"
           /\ report.signature # <<>>
           /\ info.signature # None
                 => /\ report.signature = info.signature[1]
                    /\ report.signature[1] = "@ "
           /\ info.signature = None => report.signature = <<"unknown top frame">>
           /\ (symbols_path # "" /\ stackwalk_binary = None)
                 => /\ info.signature = None
                    /\ Len(info.stackwalk_errors) = 1
                    /\ report.signature = <<"unknown top frame">>
                    /\ report.stackwalk_errors = <<info.stackwalk_errors[1]>>

\* C20, its case: a symbols path and no stackwalk_binary
C20_binary_not_set ==
    /\ entry = "_process_dump_file"
    /\ pc = "done"
    /\ symbols_path # ""
    /\ stackwalk_binary = None
    /\ crashes[1].signature = <<"unknown top frame">>
    /\ crashes[1].stackwalk_errors = <<"MINIDUMP_STACKWALK not set, can't process dump.">>

\* C21: every call of clear issues the clearing of the ANR trace file, the
\* removal of the tombstone directory and the removal of the minidumps of the
\* profile, in that order, whatever the outcome of the earlier ones and
\* whether or not a profile directory is configured; it returns no report
\* and leaves the upload directory as it was.  The code lets the ADBError of
\* delete_tombstones leave clear before delete_crash_dumps, and without a
\* profile directory os.path.join raises before any rm of minidumps.
C21_clear_issues_all_three ==
    (entry = "clear" /\ pc \in {"done", "raised"})
        => /\ \E i, j, k \in 1..Len(oplog) :
                 /\ i < j /\ j < k
                 /\ oplog[i].op = "rm" /\ oplog[i].path = TRACES
                 /\ oplog[j].op = "rm" /\ oplog[j].path = TOMBSTONES
                 /\ oplog[k].op = "rm" /\ oplog[k].path \notin {TRACES, TOMBSTONES}
           /\ retval = None
           /\ up_files = {} /\ up_tombs = {} /\ up_dumps = {}

\* C22: absent artifacts are harmless.  When the trace file does not exist,
\* check_for_anr_traces goes on to no read, write or clear and leaves the
\* device and the host as they are; when the tombstone directory does not
\* exist, check_for_tombstones goes on to no chmod, pull, delete or rename;
\* delete_anr_traces and delete_tombstones on an absent artifact leave the
\* host as it is and raise nothing.  The code has nothing around the rm of
\* delete_tombstones: its ADBError leaves the method.
C22_absent_artifacts_harmless ==
    [][/\ (pc = "anr_exists" /\ ~dev_traces.exists)
            => /\ pc' \notin {"anr_cat", "anr_copy", "dat_rm", "dat_echo", "dat_chmod"}
               /\ UNCHANGED <<device, host>>
       /\ (pc = "tomb_exists" /\ ~dev_tombs.exists)
            => /\ pc' \notin {"tomb_chmod_dir", "tomb_chmod_files", "tomb_pull",
                              "dt_rm", "tomb_rename"}
               /\ UNCHANGED <<device, host>>
       /\ (pc \in {"dat_rm", "dat_echo", "dat_chmod"} /\ ~dev_traces.exists)
            => /\ pc' # "raised"
               /\ UNCHANGED host
       /\ (pc = "dt_rm" /\ ~dev_tombs.exists)
            => /\ pc' # "raised"
               /\ UNCHANGED host]_vars

\* C23: no step of get_errors, get_crashes, check_for_anr_traces,
\* check_for_tombstones or clear deletes from the upload directory: a dump
\* or text file of the upload directory stays, a tombstone file stays under
\* its name or, not yet renamed, under its new name; the only host directory
\* a step removes is the staging directory of the running get_crashes, and
\* no staging directory is the upload directory.
C23_upload_dir_never_deleted_from ==
    [][/\ up_dumps \subseteq up_dumps'
       /\ \A f \in up_files : \E g \in up_files' : g.path = f.path
       /\ \A x \in up_tombs :
             \E y \in up_tombs' : y[1] = x[1] /\ (y[2] = x[2] \/ x[2] = 0)
       /\ \A s \in staging :
             s.dir \notin {s2.dir : s2 \in staging'}
                => pc = "gc_rmtree" /\ temp_upload_dir = <<s.dir>>
       /\ \A s \in staging' : s.dir # upload_dir]_vars

\* get_crashes ended after it removed its staging directory, and the dump
\* files it copied and the tombstones it pulled are in the upload directory
C23_staging_removed_uploads_kept ==
    /\ entry = "get_crashes"
    /\ pc = "done"
    /\ temp_upload_dir # None
    /\ staging = {}
    /\ up_dumps # {}
    /\ up_tombs # {}

\* C24: is_stderr_below_threshold returns None when at least one combination
\* of a cache key and a measurement has no values in the dataset; otherwise
\* False when at least one combination has one value only or a percentage
\* standard error at or above the threshold; otherwise True; in whatever
\* order the combinations are examined.  The code returns at the first
\* combination that decides: an uncached measurement with one value returns
\* False before the cached ones, which have no values, are looked at.
C24_result_independent_of_order ==
    LET combinations ==
            {<<k, m>> : k \in {CacheKeys[i] : i \in 1..Len(CacheKeys)},
                        m \in {measurements[i] : i \in 1..Len(measurements)}}
        values_of(c) == data_of(dataset, c[1], c[2])
        expected ==
            IF \E c \in combinations : values_of(c) = <<>> THEN None
            ELSE IF \E c \in combinations : stats_reject(values_of(c), threshold)
                 THEN <<FALSE>>
                 ELSE <<TRUE>>
    IN  (entry = "is_stderr_below_threshold" /\ pc \in {"done", "raised"})
            => pc = "done" /\ retval = expected

\* C25: in get_crashes the contents of a dump directory of the device (the
\* minidumps of the profile, the pending crash reports) are removed only
\* after the pull of that directory into the staging directory succeeded,
\* and only when clean is true; after a pull that failed no rm of that
\* directory is issued; the pending-crash-report directory is pulled only
\* if it exists, into the staging directory of the first pull.
C25_rm_only_after_pull_and_clean ==
    LET dirs == {remote_dump_dir[1], remote_pending_crashreports_dir}
        ops == 1..Len(oplog)
        rm_of(i, d) == oplog[i].op = "rm" /\ oplog[i].path = d \o "/*"
        pull_of(i, d) == oplog[i].op = "pull" /\ oplog[i].path = d
    IN  (entry \in {"get_crashes", "get_errors"} /\ remote_dump_dir # None)
            => /\ \A d \in dirs : \A i \in ops :
                     rm_of(i, d) => /\ clean
                                    /\ \E j \in 1..(i - 1) : pull_of(j, d) /\ oplog[j].ok
               /\ \A d \in dirs : \A j \in ops :
                     (pull_of(j, d) /\ ~oplog[j].ok)
                        => \A i \in ops : ~rm_of(i, d)
               /\ \A i \in ops :
                     pull_of(i, remote_pending_crashreports_dir)
                        => /\ dev_pending.exists
                           /\ temp_upload_dir # None
                           /\ oplog[i].args = temp_upload_dir[1]
                           /\ \E j \in 1..(i - 1) :
                                 /\ pull_of(j, remote_dump_dir[1])
                                 /\ oplog[j].args = oplog[i].args

\* get_crashes with clean true ended after both directories were pulled and
\* then cleared
C25_both_pulled_then_cleared ==
    /\ entry = "get_crashes"
    /\ pc = "done"
    /\ clean
    /\ remote_dump_dir # None
    /\ \E i, j, k, l \in 1..Len(oplog) :
          /\ i < j /\ j < k /\ k < l
          /\ oplog[i].op = "pull" /\ oplog[i].path = remote_dump_dir[1]
          /\ oplog[j].op = "rm" /\ oplog[j].path = remote_dump_dir[1] \o "/*"
          /\ oplog[k].op = "pull" /\ oplog[k].path = remote_pending_crashreports_dir
          /\ oplog[l].op = "rm"
          /\ oplog[l].path = remote_pending_crashreports_dir \o "/*"

\* C26: check_for_tombstones issues the delete of the tombstone directory of
\* the device only after the chmods and the pull to the upload directory
\* succeeded: no operation of the pass has failed when the rm is issued, a
\* successful pull is among them, and every tombstone file of the device has
\* its copy in the upload directory.
C26_delete_only_after_pull ==
    [][LET n == Len(oplog')
       IN  (/\ entry = "check_for_tombstones"
            /\ n = Len(oplog) + 1
            /\ oplog'[n].op = "rm"
            /\ oplog'[n].path = TOMBSTONES)
           => /\ \A i \in 1..Len(oplog) : oplog[i].ok
              /\ \E i \in 1..Len(oplog) :
                    /\ oplog[i].op = "pull" /\ oplog[i].path = TOMBSTONES
                    /\ \E j, k \in 1..(i - 1) :
                          /\ j < k
                          /\ oplog[j].op = "chmod" /\ oplog[j].path = TOMBSTONES
                          /\ oplog[k].op = "chmod" /\ oplog[k].path = TOMBSTONES \o "/*"
              /\ \A f \in dev_tombs.files :
                    \E e \in up_tombs : e[1] = f[1] /\ e[3] = f[2]]_vars

\* a pass of check_for_tombstones ended after it pulled tombstones and
\* deleted them from the device
C26_pulled_then_deleted ==
    /\ entry = "check_for_tombstones"
    /\ pc = "done"
    /\ up_tombs # {}
    /\ ~dev_tombs.exists
    /\ \E i \in 1..Len(oplog) :
          oplog[i].op = "rm" /\ oplog[i].path = TOMBSTONES /\ oplog[i].ok

\* C27: the root argument is threaded through unchanged: every exists,
\* is_dir, chmod, shell command and rm issued during get_crashes(root=r),
\* check_for_anr_traces(root=r) or check_for_tombstones(root=r), those of the
\* nested clears and checks included, is issued with root=r.  The code calls
\* delete_anr_traces(), delete_tombstones(), check_for_anr_traces() and
\* check_for_tombstones() without the argument and writes root=True in the
\* rm of get_crashes.
C27_root_threaded_through ==
    LET r == IF stack = <<>> THEN root ELSE stack[Len(stack)].root
    IN  (/\ entry \in {"get_crashes", "check_for_anr_traces", "check_for_tombstones"}
         /\ pc \notin {"idle", "raised"})
            => \A i \in 1..Len(oplog) :
                  oplog[i].op \in {"exists", "is_dir", "chmod", "shell_output", "rm"}
                     => oplog[i].root = Flag(r)

\* C28: whenever the first marker line of the log is followed by at least
\* two further lines, get_java_exception returns a JavaException report,
\* also when the line after the marker holds no "): " token; it returns no
\* result only when there is no marker or the log ends less than two lines
\* after it.
C28_report_whenever_two_lines_follow ==
    LET i == FirstMarker(adb_logcat)
        two_follow == i # 0 /\ Len(adb_logcat) >= i + 2
    IN  (entry = "get_java_exception" /\ pc = "done")
            => /\ two_follow => (retval # None /\ retval[1].reason = "java-exception")
               /\ retval = None => ~two_follow

\* C28, amended: when the first marker line of the log is followed by at
\* least two further lines, get_java_exception returns a JavaException report
\* if and only if the line after the marker holds a "): " token with
\* something after the last one (and after one tab there, if there is one);
\* it returns no result when that line holds no "): " token or nothing after
\* it, when there is no marker, and when the log ends less than two lines
\* after the marker.  A second line without the token leaves the frame part
\* of the signature empty.
C28_report_iff_type_line_has_text ==
    LET i == FirstMarker(adb_logcat)
        two_follow == i # 0 /\ Len(adb_logcat) >= i + 2
        tokens(line) == {k \in 1..Len(line) : line[k] = "): "}
        after(line) ==
            LET k == CHOOSE x \in tokens(line) : \A y \in tokens(line) : y <= x
            IN  IF k < Len(line) /\ line[k + 1] = "\t"
                THEN SubSeq(line, k + 2, Len(line))
                ELSE SubSeq(line, k + 1, Len(line))
        has_text(line) == tokens(line) # {} /\ after(line) # <<>>
    IN  (entry = "get_java_exception" /\ pc = "done")
            => /\ retval # None <=> (two_follow /\ has_text(adb_logcat[i + 1]))
               /\ retval # None
                    => /\ retval[1].reason = "java-exception"
                       /\ tokens(adb_logcat[i + 2]) = {}
                            => retval[1].signature
                                  = after(adb_logcat[i + 1]) \o <<" ">>

\* the line after the marker holds no "): " token, two lines follow the
\* marker, and the call returned no result
C28_type_line_without_token ==
    /\ entry = "get_java_exception"
    /\ pc = "done"
    /\ Len(adb_logcat) = 3
    /\ HasMarker(adb_logcat[1])
    /\ adb_logcat[2] = LinePlain
    /\ adb_logcat[3] = LineFrame
    /\ retval = None

====
